---------------------------- MODULE Spec2Model ----------------------------
(***************************************************************************)
(* The experience pipeline of the V-trace SEED learner                     *)
(* (src/agents/vtrace/learner.py): the per-slot tables, the unroll store,  *)
(* the inference function run statement by statement on the server's     *)
(* threads, the capacity-1 unroll queue, the dataset pipeline that         *)
(* dequeues from it, the training loop and its shutdown.                   *)
(*                                                                         *)
(* seed_rl.common.utils (Aggregator, UnrollStore, StructuredFIFOQueue) and *)
(* the agent module are not part of src/: their operators below follow     *)
(* sections 4.1-4.3 and 6 of the specification.                            *)
(***************************************************************************)
EXTENDS Integers, Sequences, FiniteSets

\* ------------------------------------------------------------------------
\* Configuration (flags) and bounds of the model
\* ------------------------------------------------------------------------

\* FLAGS.num_envs: the slots are 0 .. NumEnvs-1.
NumEnvs == 2
\* FLAGS.unroll_length: an unroll holds UnrollLength + 1 steps.
UnrollLength == 1
\* FLAGS.num_action_repeats.
NumActionRepeats == 2
\* FLAGS.batch_size (one replica: the per-replica batch size).
BatchSize == 1
\* FLAGS.total_environment_frames.
TotalEnvironmentFrames == 3
\* FLAGS.save_checkpoint_secs.
SaveCheckpointSecs == 2
\* FLAGS.log_episode_frequency.
LogEpisodeFrequency == 1
\* Variant: a queue of two records.
UnrollQueueOfTwo == 1 + 1

\* utils.StructuredFIFOQueue(1, unroll_specs[0]).
UnrollQueueCapacity == 1

\* Inference calls in one behaviour.
MaxCalls == 3
\* Inference calls of one behaviour that start while another call is running.
MaxOverlaps == 1
\* Inference calls of a behaviour of episodes of one slot.
MaxEpisodeCalls == 2
\* Inference calls of a behaviour of sessions of one slot.
MaxSessionCalls == 3
\* Inference calls of a behaviour of running episodes.
MaxRunningCalls == 4
\* Steps in one behaviour that end an episode (done) or are abandoned, plus
\* the changes of a slot's run id (an actor start or restart).
MaxEvents == 1
\* len(hosts): create_host(i, ...) runs for i = 0 .. NumHosts-1.
NumHosts == 2
\* Seconds that pass on the learner's clock in a behaviour.
MaxTicks == 3
\* Inference calls the server runs at the same time.
NumHandlers == 2
\* Recurrent states of the agent stub besides the initial state.
MaxAgentState == 3
\* Iterations of the actor's inner loop in a behaviour.
MaxActorSteps == 2
\* Sessions (connections) an actor starts in a behaviour.
MaxSessions == 2
\* Log probabilities, in units of ln 2: -MaxLogRho .. MaxLogRho.
MaxLogRho == 2

Slots == 0 .. (NumEnvs - 1)
\* Run ids the actors draw: 0 is also the value a slot's entry starts with.
RunIds == {0, 1}
\* The inference calls in progress are told apart by the thread they run on.
CallIds == 1 .. NumHandlers
Hosts == 0 .. (NumHosts - 1)
Rewards == {1}
\* The raw rewards a call can carry: a score_reward that differs from the
\* reward, so that the two returns of a summary differ.
RawRewards == {2}
\* The environment outputs a call can carry (reward, done, abandoned).
EnvOutputs == [reward : Rewards, done : BOOLEAN, abandoned : BOOLEAN]

\* ------------------------------------------------------------------------
\* Sequence helpers
\* ------------------------------------------------------------------------

Range(q) == {q[k] : k \in DOMAIN q}

\* The position of slot s in the batch ids: the last one if the id repeats.
Pos(ids, s) == CHOOSE k \in DOMAIN ids : ids[k] = s /\ \A j \in DOMAIN ids : j > k => ids[j] # s

\* tf.where(mask)[:, 0]: the positions at which mask holds, in order.
Where(mask) == SelectSeq([k \in DOMAIN mask |-> k], LAMBDA k : mask[k])

\* tf.gather(ids, tf.where(mask)[:, 0]): the ids at the positions where mask
\* holds, in batch order.
Gather(ids, mask) == [j \in DOMAIN Where(mask) |-> ids[Where(mask)[j]]]

\* The batches of an inference call: sequences of distinct slots, here in
\* increasing order.
Batches == {q \in UNION {[1 .. n -> Slots] : n \in 1 .. NumEnvs} :
              \A a, b \in DOMAIN q : a < b => q[a] < q[b]}

\* ------------------------------------------------------------------------
\* PerEnvironmentTable (utils.Aggregator), specification 4.1
\* ------------------------------------------------------------------------

\* read(ids): the current values for the ids, in the given order.
AggRead(table, ids) == [k \in DOMAIN ids |-> table[ids[k]]]

\* replace(ids, values): overwrite the entries of the ids.
AggReplace(table, ids, values) ==
  [s \in DOMAIN table |-> IF s \in Range(ids) THEN values[Pos(ids, s)] ELSE table[s]]

\* reset(ids): set the entries back to the zero value.
AggReset(table, ids, zero) ==
  [s \in DOMAIN table |-> IF s \in Range(ids) THEN zero ELSE table[s]]

\* The zero value of env_infos: (episode_num_frames, episode_returns,
\* episode_raw_returns) and, ghost, the run ids whose steps it accumulated.
ZeroInfo == [frames |-> 0, ret |-> 0, raw |-> 0, runs |-> {}]

InfoSum(a, b) ==
  [frames |-> a.frames + b.frames, ret |-> a.ret + b.ret,
   raw |-> a.raw + b.raw, runs |-> a.runs \cup b.runs]

\* The entry v of slot s with the values of every position of s in ids
\* added.
RECURSIVE AddAll(_, _, _, _)
AddAll(v, ids, values, s) ==
  IF ids = <<>> THEN v
  ELSE AddAll(IF Head(ids) = s THEN InfoSum(v, Head(values)) ELSE v,
              Tail(ids), Tail(values), s)

\* add(ids, values): element-wise accumulate; a repeated id accumulates
\* every one of its values.
AggAdd(table, ids, values) ==
  [s \in DOMAIN table |-> AddAll(table[s], ids, values, s)]

\* ------------------------------------------------------------------------
\* UnrollAssembler (utils.UnrollStore), specification 4.2
\* ------------------------------------------------------------------------

\* reset(ids): discard the buffered steps of the ids.
StoreReset(st, ids) == [s \in DOMAIN st |-> IF s \in Range(ids) THEN <<>> ELSE st[s]]

\* The windows after one step per id is appended, before completed windows
\* are emitted.
RECURSIVE AppendAll(_, _, _, _)
AppendAll(window, ids, steps, s) ==
  IF ids = <<>> THEN window
  ELSE AppendAll(IF Head(ids) = s THEN Append(window, Head(steps)) ELSE window,
                 Tail(ids), Tail(steps), s)

StoreFilled(st, ids, steps) == [s \in DOMAIN st |-> AppendAll(st[s], ids, steps, s)]

\* Variant: a window counts as complete one step late.
StoreCompletedLate(st, ids, steps) ==
  SelectSeq(ids, LAMBDA s : Len(StoreFilled(st, ids, steps)[s]) = UnrollLength + 2)

\* Variant: a window counts as complete one step early.
StoreCompletedEarly(st, ids, steps) ==
  SelectSeq(ids, LAMBDA s : Len(StoreFilled(st, ids, steps)[s]) = UnrollLength)

\* The ids whose window reached unroll_length + 1 steps, in batch order.
StoreCompletedIds(st, ids, steps) ==
  Gather(ids, [k \in DOMAIN ids |->
                 /\ Pos(ids, ids[k]) = k
                 /\ Len(StoreFilled(st, ids, steps)[ids[k]]) = UnrollLength + 1])

\* Variant: the window after an emitted one starts empty.
StoreAppendNoOverlap(st, ids, steps) ==
  LET filled == StoreFilled(st, ids, steps)
      completed_ids == StoreCompletedIds(st, ids, steps)
  IN [completed_ids |-> completed_ids,
      unrolls |-> [k \in DOMAIN completed_ids |-> filled[completed_ids[k]]],
      store |-> [s \in DOMAIN st |->
                   IF s \in Range(completed_ids) THEN <<>> ELSE filled[s]]]

\* append(ids, steps) -> (completed_ids, completed_unrolls), and the store
\* after it: the last step of an emitted window starts the next window.
StoreAppend(st, ids, steps) ==
  LET filled == StoreFilled(st, ids, steps)
      completed_ids == StoreCompletedIds(st, ids, steps)
  IN [completed_ids |-> completed_ids,
      unrolls |-> [k \in DOMAIN completed_ids |-> filled[completed_ids[k]]],
      store |-> [s \in DOMAIN st |->
                   IF s \in Range(completed_ids)
                   THEN <<filled[s][Len(filled[s])]>>
                   ELSE filled[s]]]

\* ------------------------------------------------------------------------
\* Policy/value module (external), specification 6
\* ------------------------------------------------------------------------

\* agent.initial_state(n): the module's initial recurrent state.
AgentInitialState == 0

\* The next recurrent state: never the initial state again.
AgentNextState(state) == (state % MaxAgentState) + 1

\* The action the policy chooses.
AgentAction(state) == AgentNextState(state) % 2

\* The value actions.reset() leaves.
ClearedAction == 0

\* ------------------------------------------------------------------------
\* State
\* ------------------------------------------------------------------------

VARIABLES
  env_run_ids,         \* Aggregator: last run id per slot
  env_infos,           \* Aggregator: running episode counters per slot
  store,               \* UnrollStore: the in-progress window per slot
  first_agent_states,  \* Aggregator: first agent state of the current unroll
  agent_states,        \* Aggregator: current agent state
  actions,             \* Aggregator: last action
  unroll_queue,        \* StructuredFIFOQueue(1, ...): the records it holds
  queue_closed,        \* unroll_queue.close() was called
  enqueue_attempts,    \* the calls waiting in enqueue_many, by arrival
  info_queue,          \* StructuredFIFOQueue(-1, info_specs)
  calls,               \* the inference calls in progress: position and locals
  batch,               \* unrolls dequeued for the next training batch
  dequeue_failed,      \* the pipeline's dequeue ended with QueueClosed
  iterations,          \* optimizer.iterations
  learner,             \* position of learner_loop
  outcome,             \* how the call that ended last ended
  used,                \* ghost: calls and events so far
  nunrolls,            \* ghost: unrolls completed so far
  appended,            \* ghost: steps appended per slot since its last reset
  emitted,             \* ghost: unrolls emitted per slot since its last reset
  resets,              \* ghost: resets of the window per slot
  call,                \* ghost: the inference call that ended last
  enq_log,             \* ghost: the unrolls in the order they entered the queue
  deq_log,             \* ghost: the unrolls in the order they were dequeued
  at_close,            \* ghost: the queue and the pipeline when close() was called
  history,             \* ghost: per slot, the inference calls made for it
  writers,             \* ghost: the running call that wrote each table entry last
  host,                \* the index i of create_host(i, ...) of the host modelled
  batch_size,          \* FLAGS.batch_size, on one replica
  loop,                \* learner_loop: position, clock, last_ckpt_time, log
  logger,              \* additional_logs: frequency, position, n_episodes, log
  env_batch_size,      \* actor: FLAGS.env_batch_size
  actor_pc,            \* actor: position in actor_loop
  session,             \* actor ghost: connection attempts so far
  batched_env,         \* actor: "none", "open", "closed" or "closed_twice"
  actor_step,          \* actor: iterations completed, over all sessions
  run_id,              \* actor: run id per environment of the batch
  reward,              \* actor: last reward per environment
  raw_reward,          \* actor: last raw reward per environment
  done,                \* actor: last done flag per environment
  abandoned,           \* actor: last abandoned flag per environment
  episode_step,        \* actor: steps of the running episode
  episode_return,      \* actor: return of the running episode
  episode_raw_return,  \* actor: raw return of the running episode
  global_step,         \* actor: steps of the episodes ended in this session
  sent,                \* actor ghost: the latest request sent to inference
  errors,              \* actor ghost: the exceptions raised, in order
  vtrace_inputs,       \* V-trace: the arguments (`values` of test_vtrace)
  other_target,        \* V-trace: a second target_action_log_probs
  output,              \* V-trace: result of from_importance_weights
  ground_truth_v,      \* V-trace: result of _ground_truth_calculation
  other_v              \* V-trace: ground truth for the second target

tables == <<env_run_ids, env_infos, store, first_agent_states, agent_states, actions>>
queues == <<unroll_queue, queue_closed, enqueue_attempts, info_queue>>
trainer == <<batch, dequeue_failed, iterations, learner>>
ghosts == <<used, nunrolls, appended, emitted, resets, call, enq_log, deq_log, at_close>>
\* The inference calls in progress.
inference == <<calls, writers>>
\* The actor's arrays and counters.
arrays == <<reward, raw_reward, done, abandoned>>
counters == <<episode_step, episode_return, episode_raw_return, global_step>>
actor == <<env_batch_size, actor_pc, session, batched_env, actor_step, run_id, arrays,
           counters, sent, errors>>
\* The V-trace computations.
vtrace == <<vtrace_inputs, other_target, output, ground_truth_v, other_v>>
\* What an inference call leaves alone.
outside == <<host, batch_size, loop, logger, actor, vtrace>>
rest == <<history, outside>>
vars == <<tables, queues, inference, outcome, trainer, ghosts, rest>>

\* time.time() when learner_loop starts: not before save_checkpoint_secs.
Epoch == SaveCheckpointSecs

\* learner_loop before it has looked for a checkpoint: last_ckpt_time = 0
\* forces the checkpoint of the initial model; `log` is the ghost record of
\* what the loop did.
LoopStart ==
  [pc |-> "setup", now |-> Epoch, last_ckpt_time |-> 0, restored |-> FALSE,
   start |-> 0, log |-> <<>>]

\* The logger thread before additional_logs ran, with
\* FLAGS.log_episode_frequency; `drained` is the ghost record of the
\* summaries it took off the queue.
LoggerStart(frequency) ==
  [frequency |-> frequency, pc |-> "idle", n_episodes |-> 0, drained |-> <<>>]

\* A thread of the server with no inference call on it. The locals of a call
\* are those of inference(); `expect`, `overlapped`, `concurrent`, `foreign`
\* and `waited` are ghosts.
IdleCall ==
  [pc |-> "idle", env_ids |-> <<>>, run_ids |-> <<>>, env_outputs |-> <<>>,
   raw_rewards |-> <<>>,
   previous_run_ids |-> <<>>, prev_actions |-> <<>>, prev_agent_states |-> <<>>,
   completed_ids |-> <<>>, windows |-> <<>>, pending |-> <<>>,
   completed_agent_states |-> <<>>, infos |-> <<>>, expect |-> <<>>,
   overlapped |-> FALSE, concurrent |-> FALSE, foreign |-> FALSE, waited |-> FALSE]

\* The ghost record of a call that ended.
NoCall ==
  [env_ids |-> <<>>, run_ids |-> <<>>, abandoned |-> <<>>, done |-> <<>>,
   raw_rewards |-> <<>>, completed_ids |-> <<>>, overlapped |-> FALSE,
   concurrent |-> FALSE, foreign |-> FALSE, waited |-> FALSE]

\* final_iteration = ceil(total_environment_frames / iter_frame_ratio).
IterFrameRatio == batch_size * UnrollLength * NumActionRepeats
FinalIteration == (TotalEnvironmentFrames + IterFrameRatio - 1) \div IterFrameRatio

TableNames == {"env_run_ids", "env_infos", "store", "first_agent_states",
               "agent_states", "actions"}

\* The unroll queue before close() was called.
NotClosed == [closed |-> FALSE, queue |-> 0, dequeued |-> 0, in_dequeue |-> FALSE]

LearnerInit ==
  /\ env_run_ids = [s \in Slots |-> 0]
  /\ env_infos = [s \in Slots |-> ZeroInfo]
  /\ store = [s \in Slots |-> <<>>]
  /\ first_agent_states = [s \in Slots |-> 0]
  /\ agent_states = [s \in Slots |-> 0]
  /\ actions = [s \in Slots |-> 0]
  /\ unroll_queue = <<>>
  /\ queue_closed = FALSE
  /\ enqueue_attempts = <<>>
  /\ info_queue = <<>>
  /\ calls = [c \in CallIds |-> IdleCall]
  /\ writers = [n \in TableNames |-> [s \in Slots |-> 0]]
  /\ outcome = "none"
  /\ batch = <<>>
  /\ dequeue_failed = FALSE
  /\ iterations = 0
  /\ learner = "training"
  /\ used = [calls |-> 0, events |-> 0, overlaps |-> 0]
  /\ nunrolls = 0
  /\ appended = [s \in Slots |-> 0]
  /\ emitted = [s \in Slots |-> 0]
  /\ resets = [s \in Slots |-> 0]
  /\ call = NoCall
  /\ enq_log = <<>>
  /\ deq_log = <<>>
  /\ at_close = NotClosed
  /\ history = [s \in Slots |-> <<>>]
  /\ loop = LoopStart

\* actor_loop before its first session: actor_step = 0 and nothing else
\* assigned yet.
ActorInit ==
  /\ actor_pc = "connect"
  /\ session = 0
  /\ batched_env = "none"
  /\ actor_step = 0
  /\ run_id = <<>> /\ reward = <<>> /\ raw_reward = <<>> /\ done = <<>> /\ abandoned = <<>>
  /\ episode_step = <<>> /\ episode_return = <<>> /\ episode_raw_return = <<>>
  /\ global_step = 0
  /\ sent = [kind |-> "none", run_id |-> <<>>, reward |-> <<>>, raw_reward |-> <<>>,
             done |-> <<>>, abandoned |-> <<>>]
  /\ errors = <<>>

\* No V-trace computation has run and none has arguments.
VtraceInit ==
  /\ vtrace_inputs = <<>> /\ other_target = <<>>
  /\ output = <<>> /\ ground_truth_v = <<>> /\ other_v = <<>>

\* The learner's first host, create_host(0, ...).
Init ==
  /\ LearnerInit
  /\ host = 0
  /\ batch_size = BatchSize
  /\ logger = LoggerStart(LogEpisodeFrequency)
  /\ env_batch_size = 1
  /\ ActorInit
  /\ VtraceInit

\* Any one of the learner's hosts.
InitHosts ==
  /\ LearnerInit
  /\ host \in Hosts
  /\ batch_size = BatchSize
  /\ logger = LoggerStart(LogEpisodeFrequency)
  /\ env_batch_size = 1
  /\ ActorInit
  /\ VtraceInit

\* ------------------------------------------------------------------------
\* InferenceService: inference(env_ids, run_ids, env_outputs, raw_rewards)
\* ------------------------------------------------------------------------

\* reset_indices = where(previous_run_ids != run_ids);
\* envs_needing_reset = gather(env_ids, reset_indices).
EnvsNeedingReset(env_ids, previous_run_ids, run_ids) ==
  Gather(env_ids, [k \in DOMAIN env_ids |-> previous_run_ids[k] # run_ids[k]])

\* env_infos.reset(envs_needing_reset).
InfosAfterReset(envs_needing_reset) == AggReset(env_infos, envs_needing_reset, ZeroInfo)

\* store.reset(envs_needing_reset).
StoreAfterReset(envs_needing_reset) == StoreReset(store, envs_needing_reset)

\* first_agent_states.replace(envs_needing_reset, initial_agent_states).
FirstAgentStatesAfterReset(envs_needing_reset) ==
  AggReplace(first_agent_states, envs_needing_reset,
             [k \in DOMAIN envs_needing_reset |-> AgentInitialState])

\* Variant: a reset of any slot re-initializes the state of every slot.
AgentStatesResetAll(envs_needing_reset) ==
  IF envs_needing_reset = <<>> THEN agent_states
  ELSE [s \in DOMAIN agent_states |-> AgentInitialState]

\* agent_states.replace(envs_needing_reset, initial_agent_states).
AgentStatesAfterReset(envs_needing_reset) ==
  AggReplace(agent_states, envs_needing_reset,
             [k \in DOMAIN envs_needing_reset |-> AgentInitialState])

\* Variant: a reset of any slot clears the last action of every slot.
ActionsResetAll(envs_needing_reset) ==
  IF envs_needing_reset = <<>> THEN actions
  ELSE [s \in DOMAIN actions |-> ClearedAction]

\* actions.reset(envs_needing_reset).
ActionsAfterReset(envs_needing_reset) == AggReset(actions, envs_needing_reset, ClearedAction)

\* Variant: the assertion is missing.
AssertNothing(env_outputs) == TRUE

\* Variant: the assertion looks at the first step of the batch only.
AssertFirstNotAbandoned(env_outputs) == ~env_outputs[1].abandoned

\* tf.debugging.assert_non_positive(cast(env_outputs.abandoned, int32)):
\* TRUE when the assertion passes.
AssertNotAbandoned(env_outputs) == \A k \in DOMAIN env_outputs : ~env_outputs[k].abandoned

\* done_ids = gather(env_ids, where(env_outputs.done)).
DoneIds(env_ids, env_outputs) ==
  Gather(env_ids, [k \in DOMAIN env_ids |-> env_outputs[k].done])

\* env_infos.add(env_ids, (0, env_outputs.reward, raw_rewards)).
InfosAfterReward(infos, env_ids, run_ids, env_outputs, raw_rewards) ==
  AggAdd(infos, env_ids,
         [k \in DOMAIN env_ids |->
            [frames |-> 0, ret |-> env_outputs[k].reward,
             raw |-> raw_rewards[k], runs |-> {run_ids[k]}]])

\* env_infos.add(env_ids, (FLAGS.num_action_repeats, 0., 0.)).
InfosAfterFrames(infos, env_ids, run_ids) ==
  AggAdd(infos, env_ids,
         [k \in DOMAIN env_ids |->
            [frames |-> NumActionRepeats, ret |-> 0, raw |-> 0, runs |-> {run_ids[k]}]])

\* env_infos.reset(done_ids).
InfosAfterDone(infos, done_ids) == AggReset(infos, done_ids, ZeroInfo)

\* The episode bookkeeping of a call that runs alone: add the rewards, reset
\* the counters of the done slots, add num_action_repeats frames.
InfosAfterCall(infos, env_ids, run_ids, env_outputs, raw_rewards) ==
  InfosAfterFrames(
    InfosAfterDone(InfosAfterReward(infos, env_ids, run_ids, env_outputs, raw_rewards),
                   DoneIds(env_ids, env_outputs)),
    env_ids, run_ids)

\* The step records handed to store.append: (prev_actions, env_outputs,
\* agent_outputs), with the recurrent state the policy was given
\* (prev_agent_state) and the ghost tags env (slot), run (run id it was
\* received under), ep (the resets of the slot's window so far) and n (its
\* place in the slot's append order since the last reset).
StepRecords(env_ids, run_ids, env_outputs, prev_actions, prev_agent_states, ordinals, epochs) ==
  [k \in DOMAIN env_ids |->
     [prev_action |-> prev_actions[k],
      reward |-> env_outputs[k].reward,
      done |-> env_outputs[k].done,
      abandoned |-> env_outputs[k].abandoned,
      action |-> AgentAction(prev_agent_states[k]),
      prev_agent_state |-> prev_agent_states[k],
      env |-> env_ids[k], run |-> run_ids[k], ep |-> epochs[env_ids[k]],
      n |-> ordinals[k]]]

\* The completed windows store.append returns, with the ghost tags env
\* (slot), uid (completion order) and k (its number among the slot's unrolls
\* since the slot's last reset).
Windows(completed_ids, unrolls, emitted0) ==
  [j \in DOMAIN completed_ids |->
     [steps |-> unrolls[j], env |-> completed_ids[j], uid |-> nunrolls + j,
      k |-> emitted0[completed_ids[j]] + 1]]

\* unrolls = Unroll(first_agent_states.read(completed_ids), *unrolls).
Unrolls(first, windows) ==
  [j \in DOMAIN windows |->
     [agent_state |-> first[windows[j].env], steps |-> windows[j].steps,
      env |-> windows[j].env, uid |-> windows[j].uid, k |-> windows[j].k]]

\* first_agent_states.replace(completed_ids, agent_states.read(completed_ids)).
FirstAgentStatesAfterCall(first, agent, completed_ids) ==
  AggReplace(first, completed_ids, AggRead(agent, completed_ids))

\* agent_states.replace(env_ids, curr_agent_states).
AgentStatesAfterCall(agent, env_ids, curr_agent_states) ==
  AggReplace(agent, env_ids, curr_agent_states)

\* actions.replace(env_ids, agent_outputs.action).
ActionsAfterCall(acts, env_ids, action) == AggReplace(acts, env_ids, action)

\* Variant: enqueue_many puts its records on the queue all at once or not
\* at all.
EnqueueFitAllAtOnce(queue, pending) ==
  IF Len(pending) <= UnrollQueueCapacity - Len(queue) THEN Len(pending) ELSE 0

\* The records of `pending` that enter the queue: as many as there is room
\* for.
EnqueueFit(queue, pending) ==
  IF Len(pending) <= UnrollQueueCapacity - Len(queue)
  THEN Len(pending)
  ELSE UnrollQueueCapacity - Len(queue)

\* Variant: enqueue_many waits for room on a full queue even with no record
\* to put on it.
EnqueueManyWaitsForRoom(queue, pending, fit) ==
  fit = Len(pending) /\ (pending = <<>> => Len(queue) < UnrollQueueCapacity)

\* enqueue_many returns when all its records are on the queue: at once if
\* there is none.
EnqueueManyReturns(queue, pending, fit) == fit = Len(pending)

\* The ghost log entries of a sequence of unrolls: completion number and slot.
Uids(q) == [k \in DOMAIN q |-> [uid |-> q[k].uid, env |-> q[k].env]]

\* The slots of a batch whose incoming run id is not the stored one.
RunChanged(env_ids, run_ids) ==
  {s \in Range(env_ids) : env_run_ids[s] # run_ids[Pos(env_ids, s)]}

\* The ghost counters of a batch's slots as a call that runs alone finds
\* them: a reset starts them afresh.
CountersAtCall(counter, env_ids, run_ids) ==
  [s \in Slots |-> IF s \in RunChanged(env_ids, run_ids) THEN 0 ELSE counter[s]]

\* The place of each step of a batch in its slot's append order.
OrdinalsOf(env_ids, run_ids) ==
  [k \in DOMAIN env_ids |-> CountersAtCall(appended, env_ids, run_ids)[env_ids[k]] + 1]

\* The resets per slot, counting those of this call.
ResetsAfter(env_ids, run_ids) ==
  [s \in Slots |-> IF s \in RunChanged(env_ids, run_ids) THEN resets[s] + 1 ELSE resets[s]]

\* A call is running from its first statement until it returns or fails.
Running(c) == calls[c].pc # "idle"

\* What a call adds to the budget of the behaviour.
UsedAfter(env_ids, run_ids, env_outputs) ==
  [calls |-> used.calls + 1,
   events |-> used.events + Cardinality({k \in DOMAIN env_ids :
                                         env_outputs[k].done \/ env_outputs[k].abandoned})
                          + Cardinality(RunChanged(env_ids, run_ids)),
   overlaps |-> used.overlaps + (IF \E d \in CallIds : Running(d) THEN 1 ELSE 0)]

WithinBudget(u) ==
  u.calls <= MaxCalls /\ u.events <= MaxEvents /\ u.overlaps <= MaxOverlaps

\* A slot is busy while a call that carries it is running.
Busy(s) == \E c \in CallIds : Running(c) /\ s \in Range(calls[c].env_ids)

\* The ghost record of one call for one slot: the run id, reward and done
\* flag it carried, whether the slot was among envs_needing_reset, whether
\* another call for the slot was running when it started, and whether it
\* passes the assertion on the abandoned flags.
HistoryAfter(env_ids, run_ids, env_outputs, raw_rewards, envs_needing_reset) ==
  [s \in Slots |->
     IF s \in Range(env_ids)
     THEN Append(history[s],
                 [run |-> run_ids[Pos(env_ids, s)],
                  reward |-> env_outputs[Pos(env_ids, s)].reward,
                  raw_reward |-> raw_rewards[Pos(env_ids, s)],
                  done |-> env_outputs[Pos(env_ids, s)].done,
                  reset |-> s \in Range(envs_needing_reset),
                  overlap |-> Busy(s),
                  served |-> AssertNotAbandoned(env_outputs)])
     ELSE history[s]]

\* The threads are interchangeable: a new call runs on the first idle one.
FirstIdle(c) ==
  /\ calls[c].pc = "idle"
  /\ \A d \in CallIds : d < c => calls[d].pc # "idle"

\* The ghost record of call c when it ends.
EndedCall(c) ==
  [env_ids |-> calls[c].env_ids, run_ids |-> calls[c].run_ids,
   abandoned |-> [k \in DOMAIN calls[c].env_ids |-> calls[c].env_outputs[k].abandoned],
   done |-> [k \in DOMAIN calls[c].env_ids |-> calls[c].env_outputs[k].done],
   raw_rewards |-> calls[c].raw_rewards,
   completed_ids |-> calls[c].completed_ids,
   overlapped |-> calls[c].overlapped, concurrent |-> calls[c].concurrent,
   foreign |-> calls[c].foreign, waited |-> calls[c].waited]

\* inference_devices holds several functions and the server runs them on
\* its threads without a lock (416-418): the statements of the calls in
\* progress, and the steps of the trainer, interleave in any order. A step
\* of the model is one operation of a call on a table, on the store or on a
\* queue; what a call computes between two of them (the masks and gathers,
\* the policy's forward computation) is local to it. An operation on an
\* empty list of ids (envs_needing_reset, done_ids or completed_ids with no
\* element) reads and writes no entry: it is no step.

\* What no statement of an inference call changes.
apart == <<queue_closed, trainer, deq_log, at_close, outside>>

\* The ghost tags after call c wrote the entries of ids in a table.
Wrote(name, ids, c) ==
  [writers EXCEPT ![name] = [s \in Slots |-> IF s \in Range(ids) THEN c ELSE @[s]]]

\* The ghost tags when call c has ended.
Forgot(w, c) == [n \in TableNames |-> [s \in Slots |-> IF w[n][s] = c THEN 0 ELSE w[n][s]]]

\* Call c reads an entry of ids that another running call wrote last.
ReadsForeign(name, ids, c) == \E s \in Range(ids) : writers[name][s] \notin {0, c}

\* envs_needing_reset of call c.
NeedingReset(c) ==
  EnvsNeedingReset(calls[c].env_ids, calls[c].previous_run_ids, calls[c].run_ids)

\* done_ids of call c.
DoneIdsOf(c) == DoneIds(calls[c].env_ids, calls[c].env_outputs)

\* curr_agent_states and agent_outputs.action of call c.
CurrAgentStates(c) ==
  [k \in DOMAIN calls[c].env_ids |-> AgentNextState(calls[c].prev_agent_states[k])]

ActionOf(c) ==
  [k \in DOMAIN calls[c].env_ids |-> AgentAction(calls[c].prev_agent_states[k])]

\* The step records call c hands to store.append.
StepsOf(c) ==
  StepRecords(calls[c].env_ids, calls[c].run_ids, calls[c].env_outputs,
              calls[c].prev_actions, calls[c].prev_agent_states,
              [k \in DOMAIN calls[c].env_ids |-> appended[calls[c].env_ids[k]] + 1],
              resets)

\* The run id call d carries for slot s.
RunIdOf(d, s) == calls[d].run_ids[Pos(calls[d].env_ids, s)]

\* The entries of the call's slots when the call runs alone, from its first
\* statement to its last, in the current state.
CallAlone(env_ids, run_ids, env_outputs, raw_rewards) ==
  LET envs_needing_reset == EnvsNeedingReset(env_ids, AggRead(env_run_ids, env_ids), run_ids)
      run1 == AggReplace(env_run_ids, env_ids, run_ids)
      infos0 == InfosAfterReset(envs_needing_reset)
      store0 == StoreAfterReset(envs_needing_reset)
      first0 == FirstAgentStatesAfterReset(envs_needing_reset)
      agent0 == AgentStatesAfterReset(envs_needing_reset)
      actions0 == ActionsAfterReset(envs_needing_reset)
      prev_agent_states == AggRead(agent0, env_ids)
      steps == StepRecords(env_ids, run_ids, env_outputs, AggRead(actions0, env_ids),
                           prev_agent_states, OrdinalsOf(env_ids, run_ids),
                           ResetsAfter(env_ids, run_ids))
      app == StoreAppend(store0, env_ids, steps)
      passes == AssertNotAbandoned(env_outputs)
      infos1 == IF passes
                THEN InfosAfterCall(infos0, env_ids, run_ids, env_outputs, raw_rewards)
                ELSE infos0
      store1 == IF passes THEN app.store ELSE store0
      first1 == IF passes THEN FirstAgentStatesAfterCall(first0, agent0, app.completed_ids)
                ELSE first0
      agent1 == IF passes
                THEN AgentStatesAfterCall(agent0, env_ids,
                       [k \in DOMAIN env_ids |-> AgentNextState(prev_agent_states[k])])
                ELSE agent0
      actions1 == IF passes
                  THEN ActionsAfterCall(actions0, env_ids,
                         [k \in DOMAIN env_ids |-> AgentAction(prev_agent_states[k])])
                  ELSE actions0
  IN [s \in Range(env_ids) |->
        <<run1[s], infos1[s], store1[s], first1[s], agent1[s], actions1[s]>>]

\* The calls the actors send. The actor of a slot sends the slot's next step
\* when the call before returned (actor.py 104, 137); after a failed call a
\* new actor session, with new run ids (actor.py 68-80, 178-180), calls
\* while the learner may still be running a call of the slot's former
\* session, at any of its statements.
ActorsSend(env_ids, run_ids) ==
  \A d \in CallIds, s \in Range(env_ids) :
     (Running(d) /\ s \in Range(calls[d].env_ids)) =>
        run_ids[Pos(env_ids, s)] # RunIdOf(d, s)

\* The position after call c replaced the run ids.
AfterRunIds(c) == IF NeedingReset(c) = <<>> THEN "assert" ELSE "reset_infos"

\* The position after call c added the rewards: line 380 runs on host 0.
AfterReward(c) ==
  IF DoneIdsOf(c) = <<>> THEN "add_frames"
  ELSE IF host = 0 THEN "read_infos" ELSE "reset_done"

\* The call of thread c ends: the thread is idle again.
Ended(c, how) ==
  /\ calls' = [calls EXCEPT ![c] = IdleCall]
  /\ outcome' = how
  /\ call' = EndedCall(c)


\* An inference call starts on thread c, whatever the other calls are doing:
\* previous_run_ids = env_run_ids.read(env_ids) (357). `expect` is the ghost
\* record of what the call is to leave, <<>> where it is not followed.
StartCall(c, env_ids, run_ids, env_outputs, raw_rewards, expect) ==
  /\ FirstIdle(c)
  /\ calls' = [d \in CallIds |->
                 IF d = c
                 THEN [IdleCall EXCEPT
                         !.pc = "replace_run_ids", !.env_ids = env_ids,
                         !.run_ids = run_ids, !.env_outputs = env_outputs,
                         !.raw_rewards = raw_rewards,
                         !.previous_run_ids = AggRead(env_run_ids, env_ids),
                         !.expect = expect,
                         !.overlapped = \E s \in Range(env_ids) : Busy(s),
                         !.concurrent = \E e \in CallIds : Running(e),
                         !.foreign = ReadsForeign("env_run_ids", env_ids, c)]
                 ELSE IF Running(d)
                      THEN [calls[d] EXCEPT
                              !.concurrent = TRUE,
                              !.overlapped = @ \/ Range(calls[d].env_ids) \cap Range(env_ids) # {}]
                      ELSE calls[d]]
  /\ history' = HistoryAfter(env_ids, run_ids, env_outputs, raw_rewards,
                             EnvsNeedingReset(env_ids, AggRead(env_run_ids, env_ids),
                                              run_ids))
  /\ used' = UsedAfter(env_ids, run_ids, env_outputs)
  /\ UNCHANGED <<apart, env_run_ids, env_infos, store, first_agent_states, agent_states,
                 actions, unroll_queue, enqueue_attempts, info_queue, writers, outcome,
                 call, nunrolls, appended, emitted, resets, enq_log>>

\* env_run_ids.replace(env_ids, run_ids) (358).
ReplaceRunIds(c) ==
  /\ calls[c].pc = "replace_run_ids"
  /\ env_run_ids' = AggReplace(env_run_ids, calls[c].env_ids, calls[c].run_ids)
  /\ writers' = Wrote("env_run_ids", calls[c].env_ids, c)
  /\ calls' = [calls EXCEPT ![c].pc = AfterRunIds(c)]
  /\ UNCHANGED <<apart, env_infos, store, first_agent_states, agent_states, actions,
                 unroll_queue, enqueue_attempts, info_queue, outcome, call, used,
                 nunrolls, appended, emitted, resets, enq_log, history>>

\* env_infos.reset(envs_needing_reset) (364).
ResetInfos(c) ==
  /\ calls[c].pc = "reset_infos"
  /\ env_infos' = InfosAfterReset(NeedingReset(c))
  /\ writers' = Wrote("env_infos", NeedingReset(c), c)
  /\ calls' = [calls EXCEPT ![c].pc = "reset_store"]
  /\ UNCHANGED <<apart, env_run_ids, store, first_agent_states, agent_states, actions,
                 unroll_queue, enqueue_attempts, info_queue, outcome, call, used,
                 nunrolls, appended, emitted, resets, enq_log, history>>

\* store.reset(envs_needing_reset) (365).
ResetStore(c) ==
  /\ calls[c].pc = "reset_store"
  /\ store' = StoreAfterReset(NeedingReset(c))
  /\ writers' = Wrote("store", NeedingReset(c), c)
  /\ appended' = [s \in Slots |-> IF s \in Range(NeedingReset(c)) THEN 0 ELSE appended[s]]
  /\ emitted' = [s \in Slots |-> IF s \in Range(NeedingReset(c)) THEN 0 ELSE emitted[s]]
  /\ resets' = [s \in Slots |-> IF s \in Range(NeedingReset(c)) THEN resets[s] + 1 ELSE resets[s]]
  /\ calls' = [calls EXCEPT ![c].pc = "reset_first_agent_states"]
  /\ UNCHANGED <<apart, env_run_ids, env_infos, first_agent_states, agent_states,
                 actions, unroll_queue, enqueue_attempts, info_queue, outcome, call,
                 used, nunrolls, enq_log, history>>

\* first_agent_states.replace(envs_needing_reset, initial_agent_states) (366-368).
ResetFirstAgentStates(c) ==
  /\ calls[c].pc = "reset_first_agent_states"
  /\ first_agent_states' = FirstAgentStatesAfterReset(NeedingReset(c))
  /\ writers' = Wrote("first_agent_states", NeedingReset(c), c)
  /\ calls' = [calls EXCEPT ![c].pc = "reset_agent_states"]
  /\ UNCHANGED <<apart, env_run_ids, env_infos, store, agent_states, actions,
                 unroll_queue, enqueue_attempts, info_queue, outcome, call, used,
                 nunrolls, appended, emitted, resets, enq_log, history>>

\* agent_states.replace(envs_needing_reset, initial_agent_states) (369).
ResetAgentStates(c) ==
  /\ calls[c].pc = "reset_agent_states"
  /\ agent_states' = AgentStatesAfterReset(NeedingReset(c))
  /\ writers' = Wrote("agent_states", NeedingReset(c), c)
  /\ calls' = [calls EXCEPT ![c].pc = "reset_actions"]
  /\ UNCHANGED <<apart, env_run_ids, env_infos, store, first_agent_states, actions,
                 unroll_queue, enqueue_attempts, info_queue, outcome, call, used,
                 nunrolls, appended, emitted, resets, enq_log, history>>

\* actions.reset(envs_needing_reset) (370).
ResetActions(c) ==
  /\ calls[c].pc = "reset_actions"
  /\ actions' = ActionsAfterReset(NeedingReset(c))
  /\ writers' = Wrote("actions", NeedingReset(c), c)
  /\ calls' = [calls EXCEPT ![c].pc = "assert"]
  /\ UNCHANGED <<apart, env_run_ids, env_infos, store, first_agent_states, agent_states,
                 unroll_queue, enqueue_attempts, info_queue, outcome, call, used,
                 nunrolls, appended, emitted, resets, enq_log, history>>

\* tf.debugging.assert_non_positive(abandoned) (372-374): the call ends here,
\* with InvalidArgumentError, when a step of the batch is abandoned.
AssertStep(c) ==
  /\ calls[c].pc = "assert"
  /\ IF AssertNotAbandoned(calls[c].env_outputs)
     THEN /\ calls' = [calls EXCEPT ![c].pc = "add_reward"]
          /\ UNCHANGED <<outcome, call, writers>>
     ELSE /\ Ended(c, "abandoned")
          /\ writers' = Forgot(writers, c)
  /\ UNCHANGED <<apart, env_run_ids, env_infos, store, first_agent_states, agent_states,
                 actions, unroll_queue, enqueue_attempts, info_queue, used, nunrolls,
                 appended, emitted, resets, enq_log, history>>

\* env_infos.add(env_ids, (0, env_outputs.reward, raw_rewards)) (377).
AddReward(c) ==
  /\ calls[c].pc = "add_reward"
  /\ env_infos' = InfosAfterReward(env_infos, calls[c].env_ids, calls[c].run_ids,
                                   calls[c].env_outputs, calls[c].raw_rewards)
  /\ writers' = Wrote("env_infos", calls[c].env_ids, c)
  /\ calls' = [calls EXCEPT ![c].pc = AfterReward(c),
                            ![c].foreign = @ \/ ReadsForeign("env_infos", calls[c].env_ids, c)]
  /\ UNCHANGED <<apart, env_run_ids, store, first_agent_states, agent_states, actions,
                 unroll_queue, enqueue_attempts, info_queue, outcome, call, used,
                 nunrolls, appended, emitted, resets, enq_log, history>>

\* if i == 0: the argument env_infos.read(done_ids) of line 380.
ReadInfos(c) ==
  /\ calls[c].pc = "read_infos"
  /\ calls' = [calls EXCEPT ![c].pc = "enqueue_infos",
                            ![c].infos = AggRead(env_infos, DoneIdsOf(c)),
                            ![c].foreign = @ \/ ReadsForeign("env_infos", DoneIdsOf(c), c)]
  /\ UNCHANGED <<apart, env_run_ids, env_infos, store, first_agent_states, agent_states,
                 actions, unroll_queue, enqueue_attempts, info_queue, writers, outcome,
                 call, used, nunrolls, appended, emitted, resets, enq_log, history>>

\* if i == 0: info_queue.enqueue_many(...) of the records read (380).
EnqueueInfos(c) ==
  /\ calls[c].pc = "enqueue_infos"
  /\ info_queue' = info_queue \o calls[c].infos
  /\ calls' = [calls EXCEPT ![c].pc = "reset_done", ![c].infos = <<>>]
  /\ UNCHANGED <<apart, env_run_ids, env_infos, store, first_agent_states, agent_states,
                 actions, unroll_queue, enqueue_attempts, writers, outcome, call, used,
                 nunrolls, appended, emitted, resets, enq_log, history>>

\* env_infos.reset(done_ids) (381).
ResetDone(c) ==
  /\ calls[c].pc = "reset_done"
  /\ env_infos' = InfosAfterDone(env_infos, DoneIdsOf(c))
  /\ writers' = Wrote("env_infos", DoneIdsOf(c), c)
  /\ calls' = [calls EXCEPT ![c].pc = "add_frames"]
  /\ UNCHANGED <<apart, env_run_ids, store, first_agent_states, agent_states, actions,
                 unroll_queue, enqueue_attempts, info_queue, outcome, call, used,
                 nunrolls, appended, emitted, resets, enq_log, history>>

\* env_infos.add(env_ids, (FLAGS.num_action_repeats, 0., 0.)) (382).
AddFrames(c) ==
  /\ calls[c].pc = "add_frames"
  /\ env_infos' = InfosAfterFrames(env_infos, calls[c].env_ids, calls[c].run_ids)
  /\ writers' = Wrote("env_infos", calls[c].env_ids, c)
  /\ calls' = [calls EXCEPT ![c].pc = "read_actions",
                            ![c].foreign = @ \/ ReadsForeign("env_infos", calls[c].env_ids, c)]
  /\ UNCHANGED <<apart, env_run_ids, store, first_agent_states, agent_states, actions,
                 unroll_queue, enqueue_attempts, info_queue, outcome, call, used,
                 nunrolls, appended, emitted, resets, enq_log, history>>

\* prev_actions = postprocess(actions.read(env_ids)) (385-387).
ReadActions(c) ==
  /\ calls[c].pc = "read_actions"
  /\ calls' = [calls EXCEPT ![c].pc = "read_agent_states",
                            ![c].prev_actions = AggRead(actions, calls[c].env_ids),
                            ![c].foreign = @ \/ ReadsForeign("actions", calls[c].env_ids, c)]
  /\ UNCHANGED <<apart, env_run_ids, env_infos, store, first_agent_states, agent_states,
                 actions, unroll_queue, enqueue_attempts, info_queue, writers, outcome,
                 call, used, nunrolls, appended, emitted, resets, enq_log, history>>

\* prev_agent_states = agent_states.read(env_ids) (388).
ReadAgentStates(c) ==
  /\ calls[c].pc = "read_agent_states"
  /\ calls' = [calls EXCEPT ![c].pc = "append",
                            ![c].prev_agent_states = AggRead(agent_states, calls[c].env_ids),
                            ![c].foreign = @ \/ ReadsForeign("agent_states", calls[c].env_ids, c)]
  /\ UNCHANGED <<apart, env_run_ids, env_infos, store, first_agent_states, agent_states,
                 actions, unroll_queue, enqueue_attempts, info_queue, writers, outcome,
                 call, used, nunrolls, appended, emitted, resets, enq_log, history>>

\* agent_inference(...) (389-396), whose outputs are a function of the call's
\* locals, and completed_ids, unrolls = store.append(env_ids, ...) (400-401).
AppendStep(c) ==
  /\ calls[c].pc = "append"
  /\ LET app == StoreAppend(store, calls[c].env_ids, StepsOf(c))
     IN /\ store' = app.store
        /\ calls' = [calls EXCEPT
                       ![c].pc = IF app.completed_ids = <<>>
                                 THEN "enqueue" ELSE "read_first_agent_states",
                       ![c].completed_ids = app.completed_ids,
                       ![c].windows = Windows(app.completed_ids, app.unrolls, emitted),
                       ![c].foreign = @ \/ ReadsForeign("store", calls[c].env_ids, c)]
        /\ nunrolls' = nunrolls + Len(app.completed_ids)
        /\ emitted' = [s \in Slots |-> IF s \in Range(app.completed_ids)
                                       THEN emitted[s] + 1 ELSE emitted[s]]
  /\ writers' = Wrote("store", calls[c].env_ids, c)
  /\ appended' = [s \in Slots |-> IF s \in Range(calls[c].env_ids)
                                  THEN appended[s] + 1 ELSE appended[s]]
  /\ UNCHANGED <<apart, env_run_ids, env_infos, first_agent_states, agent_states,
                 actions, unroll_queue, enqueue_attempts, info_queue, outcome, call,
                 used, resets, enq_log, history>>

\* unrolls = Unroll(first_agent_states.read(completed_ids), *unrolls) (402).
ReadFirstAgentStates(c) ==
  /\ calls[c].pc = "read_first_agent_states"
  /\ calls' = [calls EXCEPT
                 ![c].pc = "enqueue",
                 ![c].pending = Unrolls(first_agent_states, calls[c].windows),
                 ![c].windows = <<>>,
                 ![c].foreign = @ \/ ReadsForeign("first_agent_states",
                                                  calls[c].completed_ids, c)]
  /\ UNCHANGED <<apart, env_run_ids, env_infos, store, first_agent_states, agent_states,
                 actions, unroll_queue, enqueue_attempts, info_queue, writers, outcome,
                 call, used, nunrolls, appended, emitted, resets, enq_log, history>>

\* unroll_queue.enqueue_many(unrolls) (403): the records enter in order as the
\* queue has room, after those of the calls that came earlier; the call goes
\* on when all entered, at once when it has none. The attempt of a call that
\* brings records to the closed queue fails (EnqueueClosed).
EnqueueUnrolls(c) ==
  /\ calls[c].pc = "enqueue"
  /\ ~queue_closed \/ calls[c].pending = <<>> \/ c \in Range(enqueue_attempts)
  /\ LET turn == enqueue_attempts = <<>> \/ Head(enqueue_attempts) = c
         fit == IF turn THEN EnqueueFit(unroll_queue, calls[c].pending) ELSE 0
     IN /\ fit > 0 \/ calls[c].pending = <<>> \/ c \notin Range(enqueue_attempts)
        /\ unroll_queue' = unroll_queue \o SubSeq(calls[c].pending, 1, fit)
        /\ enq_log' = enq_log \o Uids(SubSeq(calls[c].pending, 1, fit))
        /\ IF EnqueueManyReturns(unroll_queue, calls[c].pending, fit)
           THEN /\ calls' = [calls EXCEPT
                               ![c].pc = IF calls[c].completed_ids = <<>>
                                         THEN "replace_agent_states"
                                         ELSE "read_completed",
                               ![c].pending = <<>>]
                /\ enqueue_attempts' = SelectSeq(enqueue_attempts, LAMBDA x : x # c)
           ELSE /\ calls' = [calls EXCEPT
                               ![c].pending = SubSeq(calls[c].pending, fit + 1,
                                                     Len(calls[c].pending)),
                               ![c].waited = TRUE]
                /\ enqueue_attempts' = IF c \in Range(enqueue_attempts)
                                       THEN enqueue_attempts
                                       ELSE Append(enqueue_attempts, c)
  /\ UNCHANGED <<apart, env_run_ids, env_infos, store, first_agent_states, agent_states,
                 actions, info_queue, writers, outcome, call, used, nunrolls, appended,
                 emitted, resets, history>>

\* enqueue_many of a call that brings records to the closed queue: the
\* attempt fails with QueueClosed and the call ends.
EnqueueClosed(c) ==
  /\ calls[c].pc = "enqueue"
  /\ queue_closed
  /\ calls[c].pending # <<>>
  /\ c \notin Range(enqueue_attempts)
  /\ Ended(c, "queue_closed")
  /\ writers' = Forgot(writers, c)
  /\ UNCHANGED <<apart, env_run_ids, env_infos, store, first_agent_states, agent_states,
                 actions, unroll_queue, enqueue_attempts, info_queue, used, nunrolls,
                 appended, emitted, resets, enq_log, history>>

\* enqueue_many of no record on the closed queue: it returns (EnqueueUnrolls)
\* or, here, fails with QueueClosed; which of the two the queue does is not
\* known.
EnqueueNothingClosed(c) ==
  /\ calls[c].pc = "enqueue"
  /\ queue_closed
  /\ calls[c].pending = <<>>
  /\ Ended(c, "queue_closed")
  /\ writers' = Forgot(writers, c)
  /\ UNCHANGED <<apart, env_run_ids, env_infos, store, first_agent_states, agent_states,
                 actions, unroll_queue, enqueue_attempts, info_queue, used, nunrolls,
                 appended, emitted, resets, enq_log, history>>

\* An enqueue_many that was waiting for room when close() was called: it
\* stays where it is, goes on when the queue has room (EnqueueUnrolls) or,
\* here, fails with QueueClosed; which of the three the queue does is not
\* known.
EnqueueInterrupted(c) ==
  /\ calls[c].pc = "enqueue"
  /\ queue_closed
  /\ c \in Range(enqueue_attempts)
  /\ Ended(c, "queue_closed")
  /\ enqueue_attempts' = SelectSeq(enqueue_attempts, LAMBDA x : x # c)
  /\ writers' = Forgot(writers, c)
  /\ UNCHANGED <<apart, env_run_ids, env_infos, store, first_agent_states, agent_states,
                 actions, unroll_queue, info_queue, used, nunrolls, appended, emitted,
                 resets, enq_log, history>>

\* agent_states.read(completed_ids), the argument of
\* first_agent_states.replace (405).
ReadCompleted(c) ==
  /\ calls[c].pc = "read_completed"
  /\ calls' = [calls EXCEPT
                 ![c].pc = "replace_first_agent_states",
                 ![c].completed_agent_states = AggRead(agent_states, calls[c].completed_ids),
                 ![c].foreign = @ \/ ReadsForeign("agent_states", calls[c].completed_ids, c)]
  /\ UNCHANGED <<apart, env_run_ids, env_infos, store, first_agent_states, agent_states,
                 actions, unroll_queue, enqueue_attempts, info_queue, writers, outcome,
                 call, used, nunrolls, appended, emitted, resets, enq_log, history>>

\* first_agent_states.replace(completed_ids, agent_states.read(completed_ids))
\* (404-405).
ReplaceFirstAgentStates(c) ==
  /\ calls[c].pc = "replace_first_agent_states"
  /\ first_agent_states' = AggReplace(first_agent_states, calls[c].completed_ids,
                                      calls[c].completed_agent_states)
  /\ writers' = Wrote("first_agent_states", calls[c].completed_ids, c)
  /\ calls' = [calls EXCEPT ![c].pc = "replace_agent_states"]
  /\ UNCHANGED <<apart, env_run_ids, env_infos, store, agent_states, actions,
                 unroll_queue, enqueue_attempts, info_queue, outcome, call, used,
                 nunrolls, appended, emitted, resets, enq_log, history>>

\* agent_states.replace(env_ids, curr_agent_states) (408).
ReplaceAgentStates(c) ==
  /\ calls[c].pc = "replace_agent_states"
  /\ agent_states' = AgentStatesAfterCall(agent_states, calls[c].env_ids, CurrAgentStates(c))
  /\ writers' = Wrote("agent_states", calls[c].env_ids, c)
  /\ calls' = [calls EXCEPT ![c].pc = "replace_actions"]
  /\ UNCHANGED <<apart, env_run_ids, env_infos, store, first_agent_states, actions,
                 unroll_queue, enqueue_attempts, info_queue, outcome, call, used,
                 nunrolls, appended, emitted, resets, enq_log, history>>

\* actions.replace(env_ids, agent_outputs.action) (409); the call returns
\* the actions (411-412).
ReplaceActions(c) ==
  /\ calls[c].pc = "replace_actions"
  /\ actions' = ActionsAfterCall(actions, calls[c].env_ids, ActionOf(c))
  /\ writers' = Forgot(writers, c)
  /\ Ended(c, "returned")
  /\ UNCHANGED <<apart, env_run_ids, env_infos, store, first_agent_states, agent_states,
                 unroll_queue, enqueue_attempts, info_queue, used, nunrolls, appended,
                 emitted, resets, enq_log, history>>

\* The actors' calls: any batch, run ids and environment outputs; `expect`
\* records what the call leaves when it runs alone.
InferenceCall ==
  /\ used.calls < MaxCalls
  /\ \E c \in {d \in CallIds : FirstIdle(d)}, env_ids \in Batches :
       \E run_ids \in [DOMAIN env_ids -> RunIds],
          env_outputs \in [DOMAIN env_ids -> EnvOutputs],
          raw_rewards \in [DOMAIN env_ids -> RawRewards] :
         /\ WithinBudget(UsedAfter(env_ids, run_ids, env_outputs))
         /\ ActorsSend(env_ids, run_ids)
         /\ StartCall(c, env_ids, run_ids, env_outputs, raw_rewards,
                      CallAlone(env_ids, run_ids, env_outputs, raw_rewards))

\* Calls for slot 0 alone, with any run id and no episode end: the sessions
\* of one slot.
SessionCall ==
  /\ used.calls < MaxSessionCalls
  /\ \E c \in {d \in CallIds : FirstIdle(d)}, run_ids \in [{1} -> RunIds],
        env_outputs \in [{1} -> {o \in EnvOutputs : ~o.done /\ ~o.abandoned}],
        raw_rewards \in [{1} -> RawRewards] :
       /\ ActorsSend(<<0>>, run_ids)
       /\ StartCall(c, <<0>>, run_ids, env_outputs, raw_rewards, <<>>)

\* Calls for slot 0 alone, with any run id and any done flag and no
\* abandoned step: the episodes and the sessions of one slot.
EpisodeCall ==
  /\ used.calls < MaxEpisodeCalls
  /\ \E c \in {d \in CallIds : FirstIdle(d)}, run_ids \in [{1} -> RunIds],
        env_outputs \in [{1} -> {o \in EnvOutputs : ~o.abandoned}],
        raw_rewards \in [{1} -> RawRewards] :
       /\ ActorsSend(<<0>>, run_ids)
       /\ StartCall(c, <<0>>, run_ids, env_outputs, raw_rewards, <<>>)

\* The batch of all the slots.
WholeBatch == [k \in 1 .. NumEnvs |-> k - 1]

\* Calls of running episodes for one of the given batches: the run ids of
\* the slots' sessions, no episode end.
RunningCall(batches) ==
  /\ used.calls < MaxRunningCalls
  /\ \E c \in {d \in CallIds : FirstIdle(d)}, env_ids \in batches :
       \E env_outputs \in [DOMAIN env_ids -> {o \in EnvOutputs : ~o.done /\ ~o.abandoned}],
          raw_rewards \in [DOMAIN env_ids -> RawRewards] :
         /\ ActorsSend(env_ids, AggRead(env_run_ids, env_ids))
         /\ StartCall(c, env_ids, AggRead(env_run_ids, env_ids), env_outputs, raw_rewards,
                      <<>>)

\* Calls of the slots' sessions with any done flag and no abandoned step:
\* the calls that fill the summary queue.
LogsCall ==
  /\ used.calls < MaxEpisodeCalls
  /\ \E c \in {d \in CallIds : FirstIdle(d)}, env_ids \in Batches :
       \E env_outputs \in [DOMAIN env_ids -> {o \in EnvOutputs : ~o.abandoned}],
          raw_rewards \in [DOMAIN env_ids -> RawRewards] :
         /\ ActorsSend(env_ids, AggRead(env_run_ids, env_ids))
         /\ StartCall(c, env_ids, AggRead(env_run_ids, env_ids), env_outputs, raw_rewards,
                      <<>>)

\* The next statement of a call in progress.
StatementStep ==
  \E c \in CallIds :
    \/ ReplaceRunIds(c)
    \/ ResetInfos(c)
    \/ ResetStore(c)
    \/ ResetFirstAgentStates(c)
    \/ ResetAgentStates(c)
    \/ ResetActions(c)
    \/ AssertStep(c)
    \/ AddReward(c)
    \/ ReadInfos(c)
    \/ EnqueueInfos(c)
    \/ ResetDone(c)
    \/ AddFrames(c)
    \/ ReadActions(c)
    \/ ReadAgentStates(c)
    \/ AppendStep(c)
    \/ ReadFirstAgentStates(c)
    \/ EnqueueUnrolls(c)
    \/ ReadCompleted(c)
    \/ ReplaceFirstAgentStates(c)
    \/ ReplaceAgentStates(c)
    \/ ReplaceActions(c)

\* The statements a call without an episode end runs.
SessionStep ==
  \E c \in CallIds :
    \/ ReplaceRunIds(c)
    \/ ResetInfos(c)
    \/ ResetStore(c)
    \/ ResetFirstAgentStates(c)
    \/ ResetAgentStates(c)
    \/ ResetActions(c)
    \/ AssertStep(c)
    \/ AddReward(c)
    \/ AddFrames(c)
    \/ ReadActions(c)
    \/ ReadAgentStates(c)
    \/ AppendStep(c)
    \/ ReadFirstAgentStates(c)
    \/ EnqueueUnrolls(c)
    \/ ReadCompleted(c)
    \/ ReplaceFirstAgentStates(c)
    \/ ReplaceAgentStates(c)
    \/ ReplaceActions(c)

\* The statements a call without a change of run id runs.
LogsStep ==
  \E c \in CallIds :
    \/ ReplaceRunIds(c)
    \/ AssertStep(c)
    \/ AddReward(c)
    \/ ReadInfos(c)
    \/ EnqueueInfos(c)
    \/ ResetDone(c)
    \/ AddFrames(c)
    \/ ReadActions(c)
    \/ ReadAgentStates(c)
    \/ AppendStep(c)
    \/ ReadFirstAgentStates(c)
    \/ EnqueueUnrolls(c)
    \/ ReadCompleted(c)
    \/ ReplaceFirstAgentStates(c)
    \/ ReplaceAgentStates(c)
    \/ ReplaceActions(c)

\* The statements a call of a running episode runs.
RunningStatement(c) ==
  \/ ReplaceRunIds(c)
  \/ AssertStep(c)
  \/ AddReward(c)
  \/ AddFrames(c)
  \/ ReadActions(c)
  \/ ReadAgentStates(c)
  \/ AppendStep(c)
  \/ ReadFirstAgentStates(c)
  \/ EnqueueUnrolls(c)
  \/ ReadCompleted(c)
  \/ ReplaceFirstAgentStates(c)
  \/ ReplaceAgentStates(c)
  \/ ReplaceActions(c)

RunningStep == \E c \in CallIds : RunningStatement(c)

\* enqueue_many on the closed queue.
ClosedQueueStep ==
  \E c \in CallIds :
    \/ EnqueueClosed(c)
    \/ EnqueueNothingClosed(c)
    \/ EnqueueInterrupted(c)

\* ------------------------------------------------------------------------
\* TrainingOrchestrator: the dataset pipeline and learner_loop
\* ------------------------------------------------------------------------

\* ctx.get_per_replica_batch_size(FLAGS.batch_size), with one replica.
PerReplicaBatchSize == batch_size

\* dequeue(ctx) is inside unroll_queues[...].dequeue() while the batch of the
\* next dataset element is not complete.
InDequeue == ~dequeue_failed /\ Len(batch) < PerReplicaBatchSize

\* One unroll_queue.dequeue() of dequeue(ctx).
Dequeue ==
  /\ InDequeue
  /\ unroll_queue # <<>>
  /\ batch' = Append(batch, Head(unroll_queue))
  /\ unroll_queue' = Tail(unroll_queue)
  /\ deq_log' = deq_log \o Uids(<<Head(unroll_queue)>>)
  /\ UNCHANGED <<tables, queue_closed, enqueue_attempts, info_queue, inference,
                 outcome, dequeue_failed, iterations, learner,
                 used, nunrolls, appended, emitted, resets, call, enq_log, at_close, rest>>

\* Variant: dequeue() keeps waiting on the closed, empty queue.
DequeueBlocksForever == FALSE /\ UNCHANGED vars

\* dequeue() on the closed, empty queue fails with QueueClosed.
DequeueClosed ==
  /\ InDequeue
  /\ unroll_queue = <<>>
  /\ queue_closed
  /\ dequeue_failed' = TRUE
  /\ UNCHANGED <<tables, queues, inference, outcome, batch, iterations, learner, ghosts, rest>>

\* Variant: the training step takes the batch as soon as it holds a record.
TrainStepOnPartialBatch ==
  /\ learner = "training"
  /\ iterations < FinalIteration
  /\ Len(batch) >= 1
  /\ learner' = "minimize"
  /\ batch' = <<>>
  /\ UNCHANGED <<tables, queues, inference, outcome, dequeue_failed, iterations, ghosts,
                 rest>>

\* while iterations < final_iteration: minimize(it) up to data =
\* next(iterator) (261), which takes the next element of the dataset, a
\* complete batch; compute_gradients (272) then runs on it next to the
\* inference calls and the pipeline.
TrainStep ==
  /\ learner = "training"
  /\ iterations < FinalIteration
  /\ Len(batch) = PerReplicaBatchSize
  /\ learner' = "minimize"
  /\ batch' = <<>>
  /\ UNCHANGED <<tables, queues, inference, outcome, dequeue_failed, iterations, ghosts,
                 rest>>

\* strategy.run(apply_gradients, (loss,)) (276-278): optimizer.apply_gradients
\* counts the training step in optimizer.iterations, and minimize returns.
ApplyGradients ==
  /\ learner = "minimize"
  /\ iterations' = iterations + 1
  /\ learner' = "training"
  /\ UNCHANGED <<tables, queues, inference, outcome, batch, dequeue_failed, ghosts, rest>>

\* Variant: every summary on the queue is drained.
LoggedEpisodesAll(size) == size

\* additional_logs(): drain the episode summaries, a multiple of
\* log_episode_frequency.
LoggedEpisodes(size) == size - (size % logger.frequency)

logs_rest == <<tables, unroll_queue, queue_closed, enqueue_attempts, inference, outcome,
               trainer, ghosts, history, host, batch_size, loop, actor, vtrace>>

\* n_episodes = info_queue.size(); n_episodes -= n_episodes %
\* log_episode_frequency; the test tf.not_equal(n_episodes, 0). The logger
\* runs additional_logs from logger.start to logger.shutdown.
LogsSize ==
  /\ learner # "closed"
  /\ logger.pc = "idle"
  /\ LET n_episodes == LoggedEpisodes(Len(info_queue))
     IN logger' = [logger EXCEPT !.n_episodes = n_episodes,
                                 !.pc = IF n_episodes # 0 THEN "dequeue_many" ELSE "idle"]
  /\ UNCHANGED <<info_queue, logs_rest>>

\* episode_stats = info_queue.dequeue_many(n_episodes), which waits for
\* n_episodes records, and the logging of the records.
LogsDequeueMany ==
  /\ logger.pc = "dequeue_many"
  /\ Len(info_queue) >= logger.n_episodes
  /\ info_queue' = SubSeq(info_queue, logger.n_episodes + 1, Len(info_queue))
  /\ logger' = [logger EXCEPT !.pc = "idle",
                              !.drained = logger.drained \o
                                            SubSeq(info_queue, 1, logger.n_episodes)]
  /\ UNCHANGED logs_rest

\* The ghost record of the queue and the pipeline at close().
ClosedNow ==
  [closed |-> TRUE, queue |-> Len(unroll_queue), dequeued |-> Len(deq_log),
   in_dequeue |-> InDequeue]

\* After the loop: logger.shutdown(), manager.save(), saved_model.save(),
\* server.shutdown() for every server, unroll_queue.close() for every queue,
\* whatever the inference calls and the pipeline are doing.
LearnerShutdown ==
  /\ learner = "training"
  /\ ~(iterations < FinalIteration)
  /\ learner' = "closed"
  /\ queue_closed' = TRUE
  /\ at_close' = ClosedNow
  /\ UNCHANGED <<tables, unroll_queue, enqueue_attempts, info_queue, inference, outcome,
                 batch, dequeue_failed, iterations, used, nunrolls, appended, emitted,
                 resets, call, enq_log, deq_log, rest>>

Next ==
  \/ InferenceCall
  \/ StatementStep
  \/ ClosedQueueStep
  \/ Dequeue
  \/ DequeueClosed
  \/ TrainStep
  \/ ApplyGradients
  \/ LearnerShutdown

Spec == Init /\ [][Next]_vars

\* ------------------------------------------------------------------------
\* Inference batches with a slot id outside [0, num_envs)
\* ------------------------------------------------------------------------

\* The ids an actor with task * env_batch_size + env_batch_size > num_envs
\* (or a negative task) sends: increasing, at least one outside the tables.
InvalidBatches ==
  {q \in UNION {[1 .. n -> (0 - 1) .. NumEnvs] : n \in 1 .. NumEnvs} :
      /\ \A a, b \in DOMAIN q : a < b => q[a] < q[b]
      /\ \E k \in DOMAIN q : q[k] \notin Slots}

\* A table operation accepts ids of [0, num_envs) only.
AggValidIds(ids) == \A k \in DOMAIN ids : ids[k] \in Slots

\* Variant: env_run_ids.replace runs for the valid ids before the ids are
\* checked.
RunIdsReplacedBeforeRead(env_ids, run_ids) ==
  [s \in Slots |-> IF s \in Range(env_ids) THEN run_ids[Pos(env_ids, s)]
                                            ELSE env_run_ids[s]]

\* env_run_ids when env_run_ids.read(env_ids), the first table operation of
\* inference, rejects the ids: the replace after it does not run.
RunIdsAfterRejectedRead(env_ids, run_ids) == env_run_ids

\* An inference call whose batch holds an invalid id: the read of the
\* previous run ids (357), the call's first statement, fails and the call
\* ends there.
InferenceOutOfRange(c, env_ids, run_ids) ==
  /\ FirstIdle(c)
  /\ used.calls < MaxRunningCalls /\ used.events < MaxEvents
  /\ ~AggValidIds(env_ids)
  /\ env_run_ids' = RunIdsAfterRejectedRead(env_ids, run_ids)
  /\ outcome' = "out_of_range"
  /\ used' = [used EXCEPT !.calls = @ + 1, !.events = @ + 1]
  /\ call' = [NoCall EXCEPT !.env_ids = env_ids, !.run_ids = run_ids,
                            !.abandoned = [k \in DOMAIN env_ids |-> FALSE],
                            !.done = [k \in DOMAIN env_ids |-> FALSE],
                            !.raw_rewards = [k \in DOMAIN env_ids |-> 0],
                            !.concurrent = \E d \in CallIds : Running(d)]
  /\ UNCHANGED <<env_infos, store, first_agent_states, agent_states, actions>>
  /\ UNCHANGED <<queues, inference, trainer, rest>>
  /\ UNCHANGED <<nunrolls, appended, emitted, resets, enq_log, deq_log, at_close>>

InvalidCall ==
  \E c \in CallIds, env_ids \in InvalidBatches :
    \E run_ids \in [DOMAIN env_ids -> RunIds] :
      InferenceOutOfRange(c, env_ids, run_ids)

NextRange ==
  \/ RunningCall(Batches)
  \/ RunningStep
  \/ InvalidCall
  \/ Dequeue
  \/ TrainStep
  \/ ApplyGradients

SpecRange == Init /\ [][NextRange]_vars

\* ------------------------------------------------------------------------
\* learner_loop: checkpoints, training steps and shutdown
\* ------------------------------------------------------------------------

\* optimizer.iterations of a checkpoint, found in logdir or named by
\* FLAGS.init_checkpoint: any count, also one above final_iteration.
StartIterations == 0 .. (FinalIteration + 1)

\* What nothing in learner_loop changes but the training step and the close
\* of the queues.
loop_rest == <<tables, unroll_queue, enqueue_attempts, info_queue, inference, outcome,
               dequeue_failed, used, nunrolls, appended, emitted, resets, call, enq_log,
               deq_log, history, host, batch_size, logger, actor, vtrace>>

\* The learner's clock moves on.
Tick ==
  /\ loop.pc # "done"
  /\ loop.now < Epoch + MaxTicks
  /\ loop' = [loop EXCEPT !.now = loop.now + 1]
  /\ UNCHANGED <<loop_rest, batch, iterations, learner, queue_closed, at_close>>

\* if manager.latest_checkpoint: restore it, last_ckpt_time = time.time();
\* it replaces what FLAGS.init_checkpoint restored.
RestoreLatest(n) ==
  /\ loop.pc = "setup"
  /\ iterations' = n
  /\ loop' = [loop EXCEPT !.pc = "loop", !.restored = TRUE, !.start = n,
                          !.last_ckpt_time = loop.now]
  /\ UNCHANGED <<loop_rest, batch, learner, queue_closed, at_close>>

RestoreCheckpoint == \E n \in StartIterations : RestoreLatest(n)

\* if FLAGS.init_checkpoint is not None: ckpt.restore(FLAGS.init_checkpoint),
\* which leaves optimizer.iterations = n (0 when the flag is None); no
\* checkpoint in logdir, so last_ckpt_time stays 0.
RestoreInitial(n) ==
  /\ loop.pc = "setup"
  /\ iterations' = n
  /\ loop' = [loop EXCEPT !.pc = "loop", !.start = n]
  /\ UNCHANGED <<loop_rest, batch, learner, queue_closed, at_close>>

NoCheckpoint == \E n \in StartIterations : RestoreInitial(n)

\* Variant: the checkpoint is due only after more than save_checkpoint_secs.
CheckpointOverdue == loop.now - loop.last_ckpt_time > SaveCheckpointSecs

\* current_time - last_ckpt_time >= FLAGS.save_checkpoint_secs.
CheckpointDue == loop.now - loop.last_ckpt_time >= SaveCheckpointSecs

\* The head of the while loop with a checkpoint: manager.save(),
\* saved_model.save(), last_ckpt_time = current_time.
LoopCheckpoint ==
  /\ loop.pc = "loop"
  /\ iterations < FinalIteration
  /\ CheckpointDue
  /\ loop' = [loop EXCEPT !.pc = "minimize", !.last_ckpt_time = loop.now,
                          !.log = Append(loop.log, "checkpoint")]
  /\ UNCHANGED <<loop_rest, batch, iterations, learner, queue_closed, at_close>>

\* The head of the while loop without a checkpoint.
LoopNoCheckpoint ==
  /\ loop.pc = "loop"
  /\ iterations < FinalIteration
  /\ ~CheckpointDue
  /\ loop' = [loop EXCEPT !.pc = "minimize"]
  /\ UNCHANGED <<loop_rest, batch, iterations, learner, queue_closed, at_close>>

\* minimize(it) of the loop (483) up to data = next(iterator) (261), which
\* takes the next element of the dataset.
Minimize ==
  /\ loop.pc = "minimize"
  /\ Len(batch) = PerReplicaBatchSize
  /\ batch' = <<>>
  /\ loop' = [loop EXCEPT !.pc = "apply_gradients"]
  /\ UNCHANGED <<loop_rest, iterations, learner, queue_closed, at_close>>

\* strategy.run(apply_gradients, (loss,)) (276-278) of the loop's minimize(it):
\* optimizer.iterations counts the step, and the loop is at its head again.
LoopApplyGradients ==
  /\ loop.pc = "apply_gradients"
  /\ iterations' = iterations + 1
  /\ loop' = [loop EXCEPT !.pc = "loop", !.log = Append(loop.log, "step")]
  /\ UNCHANGED <<loop_rest, batch, learner, queue_closed, at_close>>

\* Variant: the loop gives up one training step before final_iteration.
LoopOverEarly == ~(iterations < FinalIteration - 1)

\* The condition of `while iterations < final_iteration` fails.
LoopOver == ~(iterations < FinalIteration)

\* After the loop: logger.shutdown(), manager.save(), saved_model.save().
FinalSave ==
  /\ loop.pc = "loop"
  /\ LoopOver
  /\ loop' = [loop EXCEPT !.pc = "servers",
                          !.log = loop.log \o <<"final_checkpoint", "final_model">>]
  /\ UNCHANGED <<loop_rest, batch, iterations, learner, queue_closed, at_close>>

\* for server in servers: server.shutdown() has returned. Whether it waits
\* for the inference calls in progress is not known: the step is possible
\* whatever the calls are doing, and nothing says that it is ever taken
\* while one is running.
ServersShutdown ==
  /\ loop.pc = "servers"
  /\ loop' = [loop EXCEPT !.pc = "queues",
                          !.log = loop.log \o [i \in 1 .. NumHosts |-> "server_shutdown"]]
  /\ UNCHANGED <<loop_rest, batch, iterations, learner, queue_closed, at_close>>

\* for unroll_queue in unroll_queues: unroll_queue.close().
QueuesClose ==
  /\ loop.pc = "queues"
  /\ queue_closed' = TRUE
  /\ learner' = "closed"
  /\ at_close' = ClosedNow
  /\ loop' = [loop EXCEPT !.pc = "done",
                          !.log = loop.log \o [i \in 1 .. NumHosts |-> "queue_close"]]
  /\ UNCHANGED <<loop_rest, batch, iterations>>

NextLoop ==
  \/ Tick
  \/ RestoreCheckpoint
  \/ NoCheckpoint
  \/ LoopCheckpoint
  \/ LoopNoCheckpoint
  \/ Minimize
  \/ LoopApplyGradients
  \/ FinalSave
  \/ ServersShutdown
  \/ QueuesClose
  \/ RunningCall({WholeBatch})
  \/ RunningStep
  \/ ClosedQueueStep
  \/ Dequeue
  \/ DequeueClosed

\* learner_loop runs on its own thread, next to the inference calls and the
\* dataset pipeline: each of its statements is reached, but for the return
\* of server.shutdown().
SpecLoop ==
  /\ Init
  /\ [][NextLoop]_vars
  /\ WF_vars(RestoreCheckpoint \/ NoCheckpoint)
  /\ WF_vars(LoopCheckpoint) /\ WF_vars(LoopNoCheckpoint)
  /\ WF_vars(Minimize) /\ WF_vars(LoopApplyGradients)
  /\ WF_vars(FinalSave)
  /\ WF_vars(QueuesClose)

\* ------------------------------------------------------------------------
\* additional_logs next to the inference calls
\* ------------------------------------------------------------------------

\* Values of FLAGS.log_episode_frequency.
LogEpisodeFrequencies == {1, 2}

InitLogs ==
  /\ LearnerInit
  /\ host = 0
  /\ batch_size = BatchSize
  /\ logger \in {LoggerStart(f) : f \in LogEpisodeFrequencies}
  /\ env_batch_size = 1
  /\ ActorInit
  /\ VtraceInit

\* The logger thread next to inference calls that end episodes.
NextLogs ==
  \/ LogsCall
  \/ LogsStep
  \/ Dequeue
  \/ TrainStep
  \/ ApplyGradients
  \/ LogsSize
  \/ LogsDequeueMany

SpecLogs == InitLogs /\ [][NextLogs]_vars

\* ------------------------------------------------------------------------
\* The other behaviours of the learner
\* ------------------------------------------------------------------------

\* The episodes and the sessions of one slot.
NextEpisodes ==
  \/ EpisodeCall
  \/ StatementStep
  \/ Dequeue
  \/ TrainStep
  \/ ApplyGradients

SpecEpisodes == Init /\ [][NextEpisodes]_vars

\* The summary queue on whichever host the inference function was created
\* for.
SpecHosts == InitHosts /\ [][NextLogs]_vars

\* The sessions of one slot.
NextSessions ==
  \/ SessionCall
  \/ SessionStep
  \/ Dequeue
  \/ TrainStep
  \/ ApplyGradients

SpecSessions == Init /\ [][NextSessions]_vars

\* Values of FLAGS.batch_size.
BatchSizes == {1, 2}

InitBatches ==
  /\ LearnerInit
  /\ host = 0
  /\ batch_size \in BatchSizes
  /\ logger = LoggerStart(LogEpisodeFrequency)
  /\ env_batch_size = 1
  /\ ActorInit
  /\ VtraceInit

\* Calls of running episodes next to the dataset pipeline and the close of
\* the queue.
NextBatches ==
  \/ RunningCall(Batches)
  \/ RunningStep
  \/ ClosedQueueStep
  \/ Dequeue
  \/ DequeueClosed
  \/ TrainStep
  \/ ApplyGradients
  \/ LearnerShutdown

\* The pipeline's dequeue is a thread of its own: it goes on when it can.
SpecBatches ==
  /\ InitBatches
  /\ [][NextBatches]_vars
  /\ WF_vars(Dequeue) /\ WF_vars(DequeueClosed)

\* Calls of running episodes next to a trainer that is never shut down;
\* every call in progress goes on when it can, the trainer need not.
NextBackpressure ==
  \/ RunningCall(Batches)
  \/ RunningStep
  \/ Dequeue
  \/ TrainStep
  \/ ApplyGradients

SpecBackpressure ==
  /\ Init
  /\ [][NextBackpressure]_vars
  /\ \A c \in CallIds : WF_vars(RunningStatement(c))

\* ------------------------------------------------------------------------
\* The actor (actor.py, actor_loop)
\* ------------------------------------------------------------------------

\* The environments of the actor's batch, i of `for i in range(env_batch_size)`.
ActorEnvs == 0 .. (env_batch_size - 1)

\* FLAGS.env_batch_size of the actors modelled.
EnvBatchSizes == {1, 2}

\* What no step of the actor changes.
learner_side == <<tables, queues, inference, outcome, trainer, ghosts, history, host,
                  batch_size, loop, logger, vtrace>>

\* Values of np.random.randint for the run ids.
ActorRunIds == {1, 2}

\* info[i] without a score_reward entry.
NoScore == 0 - 1

\* What batched_env.step returns per environment besides the observation.
StepRewards == {1}
StepInfos == [abandoned : BOOLEAN, score_reward : {NoScore, 2}]

\* np.zeros(env_batch_size, ...).
Zeros == [i \in ActorEnvs |-> 0]
AllFalse == [i \in ActorEnvs |-> FALSE]

\* Variant: every exception of the inference call is retried.
RetriedAll == {"UnavailableError", "CancelledError", "InvalidArgumentError"}

\* except (tf.errors.UnavailableError, tf.errors.CancelledError).
Retried == {"UnavailableError", "CancelledError"}

\* The errors the inference call raises.
RpcErrors == {"UnavailableError", "CancelledError", "InvalidArgumentError"}

\* The request of client.inference(env_id, run_id, env_output, raw_reward).
Request(kind, rewards, dones, abandoneds) ==
  [kind |-> kind, run_id |-> run_id, reward |-> rewards, raw_reward |-> raw_reward,
   done |-> dones, abandoned |-> abandoneds]

\* The start of a session: client, environments, run ids, zeroed arrays
\* and counters.
Connect ==
  /\ actor_pc = "connect"
  /\ session < MaxSessions
  /\ session' = session + 1
  /\ batched_env' = "open"
  /\ run_id' \in [ActorEnvs -> ActorRunIds]
  /\ reward' = Zeros /\ raw_reward' = Zeros
  /\ done' = AllFalse /\ abandoned' = AllFalse
  /\ global_step' = 0
  /\ episode_step' = Zeros /\ episode_return' = Zeros /\ episode_raw_return' = Zeros
  /\ actor_pc' = "inference"
  /\ UNCHANGED <<env_batch_size, actor_step, sent, errors>>
  /\ UNCHANGED learner_side

\* The except clause when grpc.Client raised: batched_env is not yet
\* assigned in this attempt, so batched_env.close() finds the name unbound
\* in the first attempt (UnboundLocalError, which leaves actor_loop) and the
\* batch of the session before, already closed, in a later one
\* ("closed_twice": closed more than once); closing a closed batch returns
\* or raises.
HandlerClose(e, raises) ==
  IF batched_env = "none"
  THEN /\ errors' = Append(Append(errors, e), "UnboundLocalError")
       /\ actor_pc' = "failed"
       /\ UNCHANGED batched_env
  ELSE /\ batched_env' = "closed_twice"
       /\ IF raises
          THEN /\ errors' = Append(Append(errors, e), "CloseError")
               /\ actor_pc' = "failed"
          ELSE /\ errors' = Append(errors, e)
               /\ actor_pc' = "connect"

\* client = grpc.Client(FLAGS.server_address) raises: the exception is
\* handled by the except clause or leaves actor_loop.
ClientRaises(e, raises) ==
  /\ actor_pc = "connect"
  /\ session < MaxSessions
  /\ session' = session + 1
  /\ IF e \in Retried
     THEN HandlerClose(e, raises)
     ELSE /\ ~raises
          /\ errors' = Append(errors, e)
          /\ actor_pc' = "failed"
          /\ UNCHANGED batched_env
  /\ UNCHANGED <<env_batch_size, actor_step, run_id, arrays, counters, sent>>
  /\ UNCHANGED learner_side

\* An exception of the inference call: the session ends and the loop goes
\* round if the exception is one of the except clause, else it leaves
\* actor_loop.
Raise(e) ==
  /\ errors' = Append(errors, e)
  /\ IF e \in Retried
     THEN actor_pc' = "connect" /\ batched_env' = "closed"
     ELSE actor_pc' = "failed" /\ UNCHANGED batched_env

\* action = client.inference(env_id, run_id, env_output, raw_reward).
InferenceReturns ==
  /\ actor_pc = "inference"
  /\ sent' = Request("regular", reward, done, abandoned)
  /\ actor_pc' = "step"
  /\ UNCHANGED <<env_batch_size, session, batched_env, actor_step, run_id, arrays,
                 counters, errors>>
  /\ UNCHANGED learner_side

InferenceRaises(e) ==
  /\ actor_pc = "inference"
  /\ sent' = Request("regular", reward, done, abandoned)
  /\ Raise(e)
  /\ UNCHANGED <<env_batch_size, session, actor_step, run_id, arrays, counters>>
  /\ UNCHANGED learner_side

\* Variant: the assertion is missing.
AssertAnything(done_i, abandoned_i) == TRUE

\* assert done[i] if abandoned[i] else True.
AssertDoneIfAbandoned(done_i, abandoned_i) == abandoned_i => done_i

\* assert env_batch_size == 1 and i == 0.
AssertNotBatched(i) == env_batch_size = 1 /\ i = 0

\* raw_reward[i] = float((info[i] or {}).get('score_reward', reward[i])).
RawRewardOf(info_i, reward_i) ==
  IF info_i.score_reward = NoScore THEN reward_i ELSE info_i.score_reward

\* The environments at which an assertion of the for loop fails.
FailingEnvs(dones, info) ==
  {i \in ActorEnvs :
     \/ ~AssertDoneIfAbandoned(dones[i], info[i].abandoned)
     \/ dones[i] /\ info[i].abandoned /\ ~AssertNotBatched(i)}

\* The smallest element of a set of integers.
Least(S) == CHOOSE x \in S : \A y \in S : x <= y

RECURSIVE SumOver(_, _)
SumOver(f, S) == IF S = {} THEN 0 ELSE LET x == Least(S) IN f[x] + SumOver(f, S \ {x})

\* batched_env.step(action) and the for loop over the environments, up to
\* a failing assertion, the extra inference call for an abandoned episode,
\* or the end of the iteration.
EnvStep(rewards, dones, info) ==
  /\ actor_pc = "step"
  /\ actor_step < MaxActorSteps
  /\ LET failing == FailingEnvs(dones, info)
         stop == IF failing = {} THEN env_batch_size ELSE Least(failing)
         extra == failing = {} /\ \E i \in ActorEnvs : dones[i] /\ info[i].abandoned
         ended == {i \in ActorEnvs : i < stop /\ dones[i] /\ ~extra}
         stepped == [i \in ActorEnvs |-> IF i <= stop THEN episode_step[i] + 1
                                                      ELSE episode_step[i]]
     IN
     /\ reward' = rewards
     /\ done' = dones
     /\ raw_reward' = [i \in ActorEnvs |-> IF i <= stop THEN RawRewardOf(info[i], rewards[i])
                                                        ELSE raw_reward[i]]
     /\ abandoned' = [i \in ActorEnvs |-> IF i <= stop THEN info[i].abandoned
                                                       ELSE abandoned[i]]
     /\ episode_step' = [i \in ActorEnvs |-> IF i \in ended THEN 0 ELSE stepped[i]]
     /\ episode_return' =
          [i \in ActorEnvs |-> IF i \in ended THEN 0
                               ELSE IF i <= stop THEN episode_return[i] + rewards[i]
                               ELSE episode_return[i]]
     /\ episode_raw_return' =
          [i \in ActorEnvs |-> IF i \in ended THEN 0
                               ELSE IF i <= stop
                                    THEN episode_raw_return[i] + RawRewardOf(info[i], rewards[i])
                               ELSE episode_raw_return[i]]
     /\ global_step' = global_step + SumOver(stepped, ended)
     /\ IF failing # {}
        THEN /\ actor_pc' = "failed"
             /\ errors' = Append(errors, "AssertionError")
             /\ UNCHANGED actor_step
        ELSE IF extra
        THEN /\ actor_pc' = "extra_inference"
             /\ UNCHANGED <<actor_step, errors>>
        ELSE /\ actor_pc' = "inference"
             /\ actor_step' = actor_step + 1
             /\ UNCHANGED errors
  /\ UNCHANGED <<env_batch_size, session, batched_env, run_id, sent>>
  /\ UNCHANGED learner_side

\* Variant: the extra call carries the flags of the step.
ExtraRequestWithFlags == Request("extra", reward, done, abandoned)

\* The request of the extra call for an abandoned episode end.
ExtraRequest == Request("extra", reward, AllFalse, AllFalse)

\* The extra call returns: the rewards are cleared, the episode's counters
\* are reset and the iteration ends.
ExtraInferenceReturns ==
  /\ actor_pc = "extra_inference"
  /\ sent' = ExtraRequest
  /\ reward' = [reward EXCEPT ![0] = 0]
  /\ raw_reward' = [raw_reward EXCEPT ![0] = 0]
  /\ global_step' = global_step + episode_step[0]
  /\ episode_step' = [episode_step EXCEPT ![0] = 0]
  /\ episode_return' = [episode_return EXCEPT ![0] = 0]
  /\ episode_raw_return' = [episode_raw_return EXCEPT ![0] = 0]
  /\ actor_step' = actor_step + 1
  /\ actor_pc' = "inference"
  /\ UNCHANGED <<env_batch_size, session, batched_env, run_id, done, abandoned, errors>>
  /\ UNCHANGED learner_side

ExtraInferenceRaises(e) ==
  /\ actor_pc = "extra_inference"
  /\ sent' = ExtraRequest
  /\ Raise(e)
  /\ UNCHANGED <<env_batch_size, session, actor_step, run_id, arrays, counters>>
  /\ UNCHANGED learner_side

ConnectFails == \E e \in RpcErrors, raises \in BOOLEAN : ClientRaises(e, raises)

InferenceFails == \E e \in RpcErrors : InferenceRaises(e)

ExtraInferenceFails == \E e \in RpcErrors : ExtraInferenceRaises(e)

EnvironmentStep ==
  \E rewards \in [ActorEnvs -> StepRewards], dones \in [ActorEnvs -> BOOLEAN],
     info \in [ActorEnvs -> StepInfos] :
       EnvStep(rewards, dones, info)

NextActor ==
  \/ Connect
  \/ ConnectFails
  \/ InferenceReturns
  \/ InferenceFails
  \/ EnvironmentStep
  \/ ExtraInferenceReturns
  \/ ExtraInferenceFails

InitActor ==
  /\ LearnerInit
  /\ host = 0
  /\ batch_size = BatchSize
  /\ logger = LoggerStart(LogEpisodeFrequency)
  /\ env_batch_size \in EnvBatchSizes
  /\ ActorInit
  /\ VtraceInit

SpecActor == InitActor /\ [][NextActor]_vars

\* ------------------------------------------------------------------------
\* V-trace (vtrace_test.py, specification 4.5)
\* ------------------------------------------------------------------------

\* Numbers are exact fractions <<n, d>> with d a power of two, in lowest
\* terms.
RECURSIVE Norm(_, _)
Norm(n, d) == IF d > 1 /\ n % 2 = 0 /\ d % 2 = 0 THEN Norm(n \div 2, d \div 2) ELSE <<n, d>>

Rat(n) == <<n, 1>>
Plus(a, b) == Norm(a[1] * b[2] + b[1] * a[2], a[2] * b[2])
Minus(a, b) == Norm(a[1] * b[2] - b[1] * a[2], a[2] * b[2])
Times(a, b) == Norm(a[1] * b[1], a[2] * b[2])
Above(a, b) == a[1] * b[2] > b[1] * a[2]

\* np.minimum on two numbers.
Minimum(a, b) == IF Above(a, b) THEN b ELSE a

RECURSIVE Pow2(_)
Pow2(k) == IF k = 0 THEN 1 ELSE 2 * Pow2(k - 1)

\* np.exp of k units of ln 2.
Exp(k) == IF k >= 0 THEN <<Pow2(k), 1>> ELSE <<1, Pow2(0 - k)>>

\* (seq_len, batch_size) of the arguments.
VtraceShapes == {<<1, 1>>, <<2, 1>>, <<1, 2>>}

LogProbs == (0 - MaxLogRho) .. MaxLogRho
Discounts == {Rat(0), Rat(1)}
VtraceRewards == {Rat(1)}
Values == {Rat(0), Rat(1)}

\* A threshold that is not set (None).
NoThreshold == Rat(0)
ClipRhoThresholds == {NoThreshold, <<1, 4>>, Rat(1)}
ClipPgRhoThresholds == {NoThreshold, Rat(1)}

\* Arrays of shape [T, B] and [B].
Arrays(shape, X) == [1 .. shape[1] -> [1 .. shape[2] -> X]]
Rows(shape, X) == [1 .. shape[2] -> X]

\* The arguments of one V-trace computation of a shape.
ArgumentsOf(shape, thresholds, pg_thresholds) ==
  [shape : {shape},
   behaviour_action_log_probs : Arrays(shape, {0}),
   target_action_log_probs : Arrays(shape, LogProbs),
   discounts : Arrays(shape, Discounts),
   rewards : Arrays(shape, VtraceRewards),
   values : Arrays(shape, Values),
   bootstrap_value : Rows(shape, Values),
   clip_rho_threshold : thresholds,
   clip_pg_rho_threshold : pg_thresholds]

Times_(v) == 1 .. v.shape[1]
Batch_(v) == 1 .. v.shape[2]

\* rhos = np.exp(target_action_log_probs - behaviour_action_log_probs).
Rhos(v) ==
  [t \in Times_(v) |-> [b \in Batch_(v) |->
     Exp(v.target_action_log_probs[t][b] - v.behaviour_action_log_probs[t][b])]]

\* cs = np.minimum(rhos, 1.0).
Cs(v) == [t \in Times_(v) |-> [b \in Batch_(v) |-> Minimum(Rhos(v)[t][b], Rat(1))]]

\* Variant: the ratios are not clipped.
UnclippedRhos(v, threshold) == Rhos(v)

\* clipped_rhos = np.minimum(rhos, threshold) `if threshold:`, else rhos.
ClippedRhos(v, threshold) ==
  IF threshold[1] # 0
  THEN [t \in Times_(v) |-> [b \in Batch_(v) |-> Minimum(Rhos(v)[t][b], threshold)]]
  ELSE Rhos(v)

\* values_t_plus_1 = np.concatenate([values, bootstrap_value[None, :]]).
ValuesTPlus1(v) ==
  [t \in 1 .. (v.shape[1] + 1) |->
     IF t <= v.shape[1] THEN v.values[t] ELSE v.bootstrap_value]

\* np.prod(a[s:t]) for column b (rows s .. t-1; 1 for no row).
RECURSIVE Prod(_, _, _, _)
Prod(a, b, s, t) == IF s >= t THEN Rat(1) ELSE Times(a[s][b], Prod(a, b, s + 1, t))

\* The term the inner loop adds for t.
Term(v, s, t, b) ==
  Times(Times(Times(Prod(v.discounts, b, s, t), Prod(Cs(v), b, s, t)),
              ClippedRhos(v, v.clip_rho_threshold)[t][b]),
        Minus(Plus(v.rewards[t][b], Times(v.discounts[t][b], ValuesTPlus1(v)[t + 1][b])),
              v.values[t][b]))

\* for t in range(s, seq_len): v_s += ...
RECURSIVE InnerLoop(_, _, _, _)
InnerLoop(v, s, t, b) ==
  IF t > v.shape[1] THEN Rat(0) ELSE Plus(Term(v, s, t, b), InnerLoop(v, s, t + 1, b))

\* vs of _ground_truth_calculation.
GroundTruthVs(v) ==
  [s \in Times_(v) |-> [b \in Batch_(v) |-> Plus(v.values[s][b], InnerLoop(v, s, s, b))]]

\* np.concatenate([vs[1:], bootstrap_value[None, :]]).
VsTPlus1(v, vs) ==
  [t \in Times_(v) |-> IF t < v.shape[1] THEN vs[t + 1] ELSE v.bootstrap_value]

\* pg_advantages = clipped_pg_rhos * (rewards + discounts * vs_t_plus_1 - values).
PgAdvantages(v, vs) ==
  [t \in Times_(v) |-> [b \in Batch_(v) |->
     Times(ClippedRhos(v, v.clip_pg_rho_threshold)[t][b],
           Minus(Plus(v.rewards[t][b], Times(v.discounts[t][b], VsTPlus1(v, vs)[t][b])),
                 v.values[t][b]))]]

\* _ground_truth_calculation(**values).
GroundTruthCalculation(v) ==
  [vs |-> GroundTruthVs(v), pg_advantages |-> PgAdvantages(v, GroundTruthVs(v))]

\* lambda_ of the computation.
Lambda == Rat(1)

\* Variant: the trace coefficient is the clipped ratio.
TraceCoefficientsClipped(v) ==
  [t \in Times_(v) |-> [b \in Batch_(v) |->
     Times(ClippedRhos(v, v.clip_rho_threshold)[t][b], Lambda)]]

\* c_t = min(rho_t, 1) * lambda.
TraceCoefficients(v) ==
  [t \in Times_(v) |-> [b \in Batch_(v) |-> Times(Minimum(Rhos(v)[t][b], Rat(1)), Lambda)]]

\* delta_t = clipped_rho_t * (r_t + discount_t * V(x_{t+1}) - V(x_t)).
Deltas(v) ==
  [t \in Times_(v) |-> [b \in Batch_(v) |->
     Times(ClippedRhos(v, v.clip_rho_threshold)[t][b],
           Minus(Plus(v.rewards[t][b], Times(v.discounts[t][b], ValuesTPlus1(v)[t + 1][b])),
                 v.values[t][b]))]]

\* v_t - V(x_t), backward in time from v_T = bootstrap_value.
RECURSIVE VsMinusVxs(_, _, _)
VsMinusVxs(v, t, b) ==
  IF t > v.shape[1] THEN Rat(0)
  ELSE Plus(Deltas(v)[t][b],
            Times(Times(v.discounts[t][b], TraceCoefficients(v)[t][b]),
                  VsMinusVxs(v, t + 1, b)))

\* vtrace.from_importance_weights(**values).
FromImportanceWeights(v) ==
  LET vs == [t \in Times_(v) |-> [b \in Batch_(v) |->
                Plus(v.values[t][b], VsMinusVxs(v, t, b))]]
  IN [vs |-> vs, pg_advantages |-> PgAdvantages(v, vs)]

\* What no V-trace computation changes.
outside_vtrace == <<tables, queues, inference, outcome, trainer, ghosts, history, host,
                    batch_size, loop, logger, actor>>

\* output = vtrace.from_importance_weights(**values).
RunFromImportanceWeights ==
  /\ output = <<>>
  /\ output' = FromImportanceWeights(vtrace_inputs)
  /\ UNCHANGED <<vtrace_inputs, other_target, ground_truth_v, other_v, outside_vtrace>>

\* ground_truth_v = _ground_truth_calculation(**values).
RunGroundTruthCalculation ==
  /\ ground_truth_v = <<>>
  /\ ground_truth_v' = GroundTruthCalculation(vtrace_inputs)
  /\ UNCHANGED <<vtrace_inputs, other_target, output, other_v, outside_vtrace>>

\* The ground truth for the same arguments with the second target.
RunGroundTruthOther ==
  /\ other_v = <<>>
  /\ other_v' = GroundTruthCalculation(
                  [vtrace_inputs EXCEPT !.target_action_log_probs = other_target])
  /\ UNCHANGED <<vtrace_inputs, other_target, output, ground_truth_v, outside_vtrace>>

\* The state of the learner and the actor before anything ran.
NothingElse ==
  /\ LearnerInit /\ host = 0 /\ batch_size = BatchSize
  /\ logger = LoggerStart(LogEpisodeFrequency)
  /\ env_batch_size = 1 /\ ActorInit

InitVtrace ==
  /\ NothingElse
  /\ vtrace_inputs \in UNION {ArgumentsOf(shape, ClipRhoThresholds, ClipPgRhoThresholds) :
                                shape \in VtraceShapes}
  /\ other_target = vtrace_inputs.target_action_log_probs
  /\ output = <<>> /\ ground_truth_v = <<>> /\ other_v = <<>>

NextVtrace ==
  \/ RunFromImportanceWeights
  \/ RunGroundTruthCalculation

SpecVtrace == InitVtrace /\ [][NextVtrace]_vars

\* Two computations that differ in target_action_log_probs only.
InitClip ==
  /\ NothingElse
  /\ vtrace_inputs \in ArgumentsOf(<<2, 1>>, ClipRhoThresholds \ {NoThreshold}, {NoThreshold})
  /\ other_target \in Arrays(<<2, 1>>, LogProbs)
  /\ output = <<>> /\ ground_truth_v = <<>> /\ other_v = <<>>

NextClip ==
  \/ RunGroundTruthCalculation
  \/ RunGroundTruthOther

SpecClip == InitClip /\ [][NextClip]_vars

\* ------------------------------------------------------------------------
\* Properties of the unroll store
\* ------------------------------------------------------------------------

Last(q) == q[Len(q)]

IsPrefix(p, q) == Len(p) <= Len(q) /\ SubSeq(q, 1, Len(p)) = p

Ordinals(steps) == [i \in DOMAIN steps |-> steps[i].n]

\* The unrolls with their recurrent state: on the queue, in the batch being
\* assembled, in the hands of a call at enqueue_many.
HeldUnrolls ==
  Range(unroll_queue) \cup Range(batch)
    \cup UNION {Range(calls[c].pending) : c \in CallIds}

\* The window of an unroll, with its slot and its numbers.
WindowOf(u) == [steps |-> u.steps, env |-> u.env, uid |-> u.uid, k |-> u.k]

\* Every window store.append emitted that the system still holds: those of
\* the unrolls, and those a call has not yet given a recurrent state.
HeldWindows ==
  {WindowOf(u) : u \in HeldUnrolls}
    \cup UNION {Range(calls[c].windows) : c \in CallIds}

\* The windows held of slot s that were built since the slot's last reset.
CurrentWindows(s) == {u \in HeldWindows : u.env = s /\ u.steps[1].ep = resets[s]}

\* The window of a slot holds exactly the steps appended after the start of
\* its last emitted unroll's boundary step, in append order.
WindowIsTail ==
  \A s \in Slots :
    /\ Len(store[s]) = appended[s] - emitted[s] * UnrollLength
    /\ Ordinals(store[s]) = [i \in 1 .. Len(store[s]) |-> emitted[s] * UnrollLength + i]
    /\ \A i \in DOMAIN store[s] : store[s][i].env = s /\ store[s][i].ep = resets[s]

\* The k-th unroll of a slot holds the steps (k-1)*U + 1 .. k*U + 1 of the
\* slot's append order, in that order.
UnrollsTile ==
  \A u \in HeldWindows :
    /\ Ordinals(u.steps) = [i \in 1 .. Len(u.steps) |-> (u.k - 1) * UnrollLength + i]
    /\ u.k >= 1
    /\ \A i \in DOMAIN u.steps : u.steps[i].env = u.env /\ u.steps[i].ep = u.steps[1].ep
    /\ u.steps[1].ep = resets[u.env] => u.k <= emitted[u.env]

\* The step two consecutive unrolls share is the same record in both, and
\* the window starts with the last record of the last emitted unroll.
BoundaryShared ==
  /\ \A u, v \in HeldWindows :
        (u.env = v.env /\ u.steps[1].ep = v.steps[1].ep /\ v.k = u.k + 1)
          => Last(u.steps) = v.steps[1]
  /\ \A s \in Slots : \A u \in CurrentWindows(s) :
        u.k = emitted[s] => store[s] # <<>> /\ store[s][1] = Last(u.steps)

\* C1: for a slot that is not reset, the unrolls emitted for it, with the
\* duplicated boundary step dropped, are a prefix of the steps appended for
\* it in append order: unroll k holds steps (k-1)*U+1 .. k*U+1, consecutive
\* unrolls share exactly their boundary record, and the steps not yet in an
\* unroll are exactly the buffered window.
C1_EmittedUnrollsArePrefix == WindowIsTail /\ UnrollsTile /\ BoundaryShared

\* A slot never reset has emitted two unrolls: the first is in the batch,
\* the second on the queue, and the window holds their successor's first step.
C1_Witness ==
  \E s \in Slots :
    /\ resets[s] = 0 /\ emitted[s] = 2
    /\ \E u \in Range(batch), v \in Range(unroll_queue) :
          u.env = s /\ v.env = s /\ u.k = 1 /\ v.k = 2 /\ store[s] = <<Last(v.steps)>>

\* C2 (as corrected): a freshly reset slot fed exactly 2*U + 1 step records
\* has emitted exactly 2 unrolls; they hold the records 1 .. U+1 and
\* U+1 .. 2*U+1, so that with the duplicated boundary record dropped they
\* reproduce the 2*U + 1 records, and the window holds the last one.
C2_TwoUnrollsAfterTwoULengthPlusOne ==
  \A s \in Slots :
    appended[s] = 2 * UnrollLength + 1 =>
      /\ emitted[s] = 2
      /\ Ordinals(store[s]) = <<2 * UnrollLength + 1>>
      /\ \A u \in CurrentWindows(s) :
            /\ u.k \in {1, 2}
            /\ Ordinals(u.steps) = [i \in 1 .. UnrollLength + 1 |-> (u.k - 1) * UnrollLength + i]

\* A slot reset by a run-id change and then fed 2*U + 1 records, with its
\* second unroll on the queue.
C2_Witness ==
  \E s \in Slots :
    /\ resets[s] = 1 /\ appended[s] = 2 * UnrollLength + 1 /\ emitted[s] = 2
    /\ \E v \in Range(unroll_queue) : v.env = s /\ v.k = 2 /\ v.steps[1].ep = 1

\* C2 as stated: 2*U records already give 2 unrolls.
C2_TwoUnrollsAfterTwoULength ==
  \A s \in Slots : appended[s] = 2 * UnrollLength => emitted[s] = 2

\* C3: every unroll held has exactly U + 1 steps, all of one slot and one
\* reset of it; a slot's window is emitted exactly when it reaches U + 1 steps
\* (emitted = (appended - 1) div U), the windows that have not reached it
\* stay buffered with at most U steps, and no unroll a reset or the shutdown
\* leaves behind is a partial window.
C3_UnrollsAreFull ==
  /\ \A u \in HeldWindows :
        /\ Len(u.steps) = UnrollLength + 1
        /\ \A i \in DOMAIN u.steps : u.steps[i].env = u.env /\ u.steps[i].ep = u.steps[1].ep
  /\ \A s \in Slots :
        /\ Len(store[s]) <= UnrollLength
        /\ emitted[s] = (IF appended[s] = 0 THEN 0 ELSE (appended[s] - 1) \div UnrollLength)
        /\ appended[s] > 0 => store[s] # <<>>

\* After the shutdown: one slot completed the two unrolls that were trained
\* on, the other was reset by a run-id change and its window is still
\* buffered; no unroll is left anywhere.
C3_Witness ==
  \E s, r \in Slots :
    /\ learner = "closed" /\ nunrolls = 2 /\ HeldWindows = {}
    /\ emitted[s] = 2 /\ resets[s] = 0
    /\ resets[r] = 1 /\ emitted[r] = 0 /\ appended[r] = 1 /\ Len(store[r]) = 1

\* ------------------------------------------------------------------------
\* Properties of the inference call
\* ------------------------------------------------------------------------

\* The step starts a call on thread c, ends the call of thread c, or is a
\* statement of the call of thread c.
Starts(c) == ~Running(c) /\ Running(c)'
Ends(c) == Running(c) /\ ~Running(c)'
Acts(c) ==
  /\ Running(c)
  /\ calls'[c].pc # calls[c].pc \/ calls'[c].pending # calls[c].pending
       \/ calls'[c].waited # calls[c].waited

\* The step is the statement of call c at position pc.
Does(c, pc) == calls[c].pc = pc /\ Acts(c)

\* The positions of the statements that reset the slots of
\* envs_needing_reset.
ResetStatements ==
  {"reset_infos", "reset_store", "reset_first_agent_states", "reset_agent_states",
   "reset_actions"}

\* A step of the batch of call c is abandoned.
Abandoned(c) == \E k \in DOMAIN calls[c].env_outputs : calls[c].env_outputs[k].abandoned

\* A slot some call of which started while another call for it was in
\* progress.
Overlapped(s) == \E i \in DOMAIN history[s] : history[s][i].overlap

\* The entries of slot s in the six tables.
SlotState(s) ==
  <<env_run_ids[s], env_infos[s], store[s], first_agent_states[s], agent_states[s], actions[s]>>

\* The window and the windows emitted of slot s hold steps of one run id.
OneRunId(s) ==
  /\ \A i \in DOMAIN store[s] : store[s][i].run = store[s][1].run
  /\ \A u \in HeldWindows :
        u.env = s => \A i \in DOMAIN u.steps : u.steps[i].run = u.steps[1].run

\* No episode counter and no episode summary holds steps of two run ids.
CountersOfOneRunId ==
  /\ \A s \in Slots : Cardinality(env_infos[s].runs) <= 1
  /\ \A i \in DOMAIN info_queue : Cardinality(info_queue[i].runs) <= 1

\* No window, unroll, episode counter or episode summary holds steps of two
\* run ids.
RunIdsNotMixed == CountersOfOneRunId /\ \A s \in Slots : OneRunId(s)

\* What an inference call does to the slots of its batch, by whether the
\* incoming run id differs from the stored one: the slots it finds to need a
\* reset, the run ids it stores, the entries its reset statements clear, and
\* the step it appends for a slot it reset when no other call for the slot
\* is in progress.
ResetIffRunIdChanged ==
  \A c \in CallIds :
    /\ Starts(c) =>
         /\ Range(NeedingReset(c)') =
              {s \in Range(calls'[c].env_ids) :
                 env_run_ids[s] # calls'[c].run_ids[Pos(calls'[c].env_ids, s)]}
         /\ calls'[c].pc = "replace_run_ids"
    /\ Does(c, "replace_run_ids") =>
         /\ \A k \in DOMAIN calls[c].env_ids :
               env_run_ids'[calls[c].env_ids[k]] = calls[c].run_ids[k]
         /\ calls'[c].pc \in ResetStatements <=> NeedingReset(c) # <<>>
    /\ (calls[c].pc \in ResetStatements /\ Acts(c)) =>
         /\ \A s \in Slots \ Range(NeedingReset(c)) : SlotState(s)' = SlotState(s)
         /\ \A s \in Range(NeedingReset(c)) :
              /\ Does(c, "reset_infos") => env_infos'[s] = ZeroInfo
              /\ Does(c, "reset_store") => store'[s] = <<>>
              /\ Does(c, "reset_first_agent_states") =>
                    first_agent_states'[s] = AgentInitialState
              /\ Does(c, "reset_agent_states") => agent_states'[s] = AgentInitialState
              /\ Does(c, "reset_actions") => actions'[s] = ClearedAction
    /\ (Does(c, "append") /\ ~calls[c].overlapped) =>
         \A s \in Range(NeedingReset(c)) :
           /\ store'[s] = <<Last(store'[s])>>
           /\ Last(store'[s]).prev_agent_state = AgentInitialState
           /\ Last(store'[s]).prev_action = ClearedAction

\* C4 as stated: a slot of an inference call is reset exactly when its
\* incoming run id differs from the stored one; the stored run id is the
\* incoming one after the call's replace either way; a reset slot loses its
\* window and its episode counters and its step is computed from the initial
\* recurrent state and the cleared action; no window, unroll or episode
\* summary ever holds steps of two run ids.
C4_ResetOnRunIdChange == []RunIdsNotMixed /\ [][ResetIffRunIdChanged]_vars

\* A call with a new run id started for a slot while the call of the former
\* run was in progress; both appended their step, and the unroll of the slot
\* holds a step of each run id.
C4_Witness ==
  \E u \in HeldUnrolls :
    /\ Overlapped(u.env)
    /\ resets[u.env] = 1
    /\ u.steps[1].run # u.steps[2].run
    /\ \A c \in CallIds : ~Running(c)

\* What a statement of an inference call does to the slots: nothing to a
\* slot outside the batch, nothing to a slot outside envs_needing_reset when
\* it is one of the resets, nothing to a slot outside done_ids when it is the
\* reset of the done slots; to a slot of the batch what the slot's own
\* entries and step determine; the records on the two queues and in the
\* batch of the trainer stay.
OtherSlotsUntouched ==
  \A c \in CallIds :
    Acts(c) =>
      /\ IsPrefix(unroll_queue, unroll_queue')
      /\ IsPrefix(info_queue, info_queue')
      /\ batch' = batch
      /\ \A s \in Slots \ Range(calls[c].env_ids) : SlotState(s)' = SlotState(s)
      /\ calls[c].pc \in ResetStatements =>
           \A s \in Slots \ Range(NeedingReset(c)) : SlotState(s)' = SlotState(s)
      /\ calls[c].pc = "reset_done" =>
           /\ \A s \in Slots \ Range(DoneIdsOf(c)) : SlotState(s)' = SlotState(s)
           /\ \A s \in Range(DoneIdsOf(c)) : env_infos'[s] = ZeroInfo
      /\ \A s \in Range(calls[c].env_ids) :
           LET k == Pos(calls[c].env_ids, s) IN
           /\ calls[c].pc = "add_reward" =>
                /\ env_infos'[s].ret = env_infos[s].ret + calls[c].env_outputs[k].reward
                /\ env_infos'[s].raw = env_infos[s].raw + calls[c].raw_rewards[k]
                /\ env_infos'[s].frames = env_infos[s].frames
           /\ calls[c].pc = "add_frames" =>
                /\ env_infos'[s].frames = env_infos[s].frames + NumActionRepeats
                /\ env_infos'[s].ret = env_infos[s].ret
                /\ env_infos'[s].raw = env_infos[s].raw
           /\ calls[c].pc = "read_actions" => calls'[c].prev_actions[k] = actions[s]
           /\ calls[c].pc = "read_agent_states" =>
                calls'[c].prev_agent_states[k] = agent_states[s]
           /\ calls[c].pc = "append" =>
                /\ store'[s] # <<>>
                /\ Last(store'[s]).env = s
                /\ Last(store'[s]).run = calls[c].run_ids[k]
                /\ Last(store'[s]).n = appended[s] + 1
                /\ Last(store'[s]).prev_action = calls[c].prev_actions[k]
                /\ Last(store'[s]).prev_agent_state = calls[c].prev_agent_states[k]
                /\ store'[s] = (IF Len(store[s]) < UnrollLength
                                THEN Append(store[s], Last(store'[s]))
                                ELSE <<Last(store'[s])>>)
           /\ calls[c].pc = "replace_agent_states" =>
                agent_states'[s] = AgentNextState(calls[c].prev_agent_states[k])
           /\ calls[c].pc = "replace_actions" =>
                actions'[s] = AgentAction(calls[c].prev_agent_states[k])
           /\ calls[c].pc \in {"add_reward", "add_frames"} =>
                <<env_run_ids[s], store[s], first_agent_states[s], agent_states[s],
                  actions[s]>>' =
                <<env_run_ids[s], store[s], first_agent_states[s], agent_states[s],
                  actions[s]>>

\* C5: when an inference call resets some slots (run-id change) or ends the
\* episode of some slots, every other slot keeps its window, stored run id,
\* first agent state, agent state, last action and episode counters exactly
\* as they would be without it: untouched outside the batch, and inside the
\* batch advanced by its own step only; the records already on the unroll
\* queue and on the summary queue are unchanged.
C5_ResetIsolation == [][OtherSlotsUntouched]_vars

\* The second call carried both slots and reset one of them: the other has
\* its two steps (one emitted unroll and the window that follows it).
C5_Witness ==
  \E s, r \in Slots :
    /\ used.calls = 2 /\ Len(call.env_ids) = 2
    /\ \A c \in CallIds : ~Running(c)
    /\ resets[r] = 1 /\ appended[r] = 1 /\ Len(store[r]) = 1
    /\ resets[s] = 0 /\ appended[s] = 2
    /\ agent_states[s] = AgentNextState(AgentNextState(AgentInitialState))
    /\ agent_states[r] = AgentNextState(AgentInitialState)

\* C6: no step record of an in-progress window, of an unroll on the unroll
\* queue (or on its way to it) or of an unroll in the training batch has
\* abandoned = true.
C6_NoAbandonedStep ==
  /\ \A s \in Slots : \A i \in DOMAIN store[s] : ~store[s][i].abandoned
  /\ \A u \in HeldWindows : \A i \in DOMAIN u.steps : ~u.steps[i].abandoned

\* A call with an abandoned step was rejected while a window was in progress
\* and an unroll was on the queue.
C6_Witness ==
  /\ outcome = "abandoned"
  /\ \E k \in DOMAIN call.abandoned : call.abandoned[k] /\ store[call.env_ids[k]] # <<>>
  /\ unroll_queue # <<>>

\* A call whose batch holds an abandoned step is at the replace of the run
\* ids, at a reset or at the assertion: it runs no statement after it.
StopsAtAssertion ==
  \A c \in CallIds :
    (Running(c) /\ Abandoned(c)) =>
       calls[c].pc \in {"replace_run_ids", "assert"} \cup ResetStatements

\* The assertion of such a call ends the call with the fatal error and
\* leaves every table and queue as it is.
AbandonedCallFails ==
  \A c \in CallIds :
    (Does(c, "assert") /\ Abandoned(c)) =>
      /\ Ends(c)
      /\ outcome' = "abandoned"
      /\ \A s \in Slots : SlotState(s)' = SlotState(s)
      /\ UNCHANGED <<unroll_queue, enqueue_attempts, info_queue, nunrolls, enq_log, batch>>

\* C7: an inference call whose batch holds a step with abandoned = true
\* (with or without done) ends in the fatal condition and does nothing that
\* follows the assertion: no episode counter is incremented, no episode
\* summary enqueued, no step appended, nothing pushed on the unroll queue,
\* no agent state or last action advanced.
C7_AbandonedBatchIsFatal == []StopsAtAssertion /\ [][AbandonedCallFails]_vars

\* A two-slot call whose second step was abandoned was rejected; the windows
\* of both slots are as the call found them.
C7_Witness ==
  /\ outcome = "abandoned"
  /\ \A c \in CallIds : ~Running(c)
  /\ Len(call.env_ids) = 2 /\ ~call.abandoned[1] /\ call.abandoned[2]
  /\ \A s \in Slots : Len(store[s]) = 1 /\ env_infos[s].frames = NumActionRepeats

\* ------------------------------------------------------------------------
\* Properties of the unroll queue
\* ------------------------------------------------------------------------

\* The calls waiting in enqueue_many.
Blocked == Range(enqueue_attempts)

\* Call c is about to call enqueue_many with at least one unroll.
Brings(c) == calls[c].pc = "enqueue" /\ calls[c].pending # <<>>

\* The queue never holds more than one unroll, a record enters it only
\* after every record that entered before it was dequeued, and a call waits
\* in enqueue_many only with a record to put on the queue.
AtMostOnePending ==
  /\ Len(unroll_queue) <= 1
  /\ Len(enq_log) <= Len(deq_log) + 1
  /\ \A c \in Blocked : Brings(c)

\* While the open queue holds an unroll, a call that brings at least one
\* unroll stays in enqueue_many: none of its unrolls enters, it does not
\* return and it advances no agent state and no action. A record enters the
\* queue only when the queue is empty, and it is the first of its call.
EnqueueWaitsForDequeue ==
  /\ \A c \in CallIds :
        (Brings(c) /\ unroll_queue # <<>> /\ ~queue_closed) =>
           /\ calls'[c].pc = "enqueue"
           /\ calls'[c].pending = calls[c].pending
           /\ Acts(c) =>
                /\ c \in Blocked'
                /\ UNCHANGED <<unroll_queue, enq_log, outcome, tables>>
  /\ enq_log' # enq_log =>
        /\ unroll_queue = <<>>
        /\ \E c \in CallIds :
              /\ Brings(c)
              /\ unroll_queue' = <<Head(calls[c].pending)>>

\* C8 (as corrected): the unroll queue has capacity 1: it never holds more
\* than one unroll, and an enqueue_many that carries at least one unroll,
\* issued while an unconsumed unroll is on the queue, does not complete
\* before a dequeue removed that unroll: the call stays blocked and returns
\* no action until then.
C8_CapacityOneBlocksProducers == []AtMostOnePending /\ [][EnqueueWaitsForDequeue]_vars

\* A call is blocked with its unroll while the queue holds another one.
C8_Witness ==
  \E c \in Blocked :
    /\ Len(unroll_queue) = 1
    /\ Len(calls[c].pending) = 1
    /\ calls[c].waited
    /\ calls[c].pending[1].uid > unroll_queue[1].uid

\* C8 as stated: every call's enqueue_many, issued while an unconsumed
\* unroll is on the queue, leaves the call blocked.
C8_EveryEnqueueBlocks ==
  [][\A c \in CallIds :
       (calls[c].pc = "enqueue" /\ unroll_queue # <<>> /\ ~queue_closed) =>
          calls'[c].pc = "enqueue"]_vars

\* C9 as stated: the unroll queue is FIFO and lossless: the records
\* dequeued are, in order, the first of those that entered, the queue holds
\* the rest, no record is dequeued twice, the records of one enqueue_many
\* enter in their order, and the unrolls of one slot are dequeued in the
\* order in which they were completed.
C9_FifoLossless ==
  /\ enq_log = deq_log \o Uids(unroll_queue)
  /\ \A i, j \in DOMAIN deq_log : i < j => deq_log[i].uid # deq_log[j].uid
  /\ \A c \in CallIds :
        /\ \A i, j \in DOMAIN calls[c].pending :
              i < j => calls[c].pending[i].uid < calls[c].pending[j].uid
        /\ \A i \in DOMAIN calls[c].pending, j \in DOMAIN enq_log :
              enq_log[j].uid # calls[c].pending[i].uid
  /\ \A i, j \in DOMAIN deq_log :
        (i < j /\ deq_log[i].env = deq_log[j].env) => deq_log[i].uid < deq_log[j].uid

\* The queue alone: FIFO and lossless, whatever the order in which the calls
\* reach it.
QueueIsFifo ==
  /\ enq_log = deq_log \o Uids(unroll_queue)
  /\ \A i, j \in DOMAIN deq_log : i < j => deq_log[i].uid # deq_log[j].uid

\* Two unrolls of one slot were dequeued, the one completed later first: the
\* call that completed the earlier one reached enqueue_many after a call of
\* the slot's next session had completed, and enqueued, the later one.
C9_Witness ==
  /\ Len(deq_log) = 2
  /\ deq_log[1].env = deq_log[2].env
  /\ deq_log[1].uid > deq_log[2].uid
  /\ QueueIsFifo
  /\ \A c \in CallIds : ~Running(c)

\* The closed queue stays closed. An enqueue_many issued after close() with
\* a record fails and puts nothing on the queue, and what enters the closed
\* queue is a record of a call that was waiting in enqueue_many before. A
\* dequeue from the closed queue takes the first record; the dequeue fails
\* only on the closed, empty queue, every record that entered dequeued, and
\* leaves everything as it is.
ClosedQueueRejects ==
  /\ queue_closed => queue_closed'
  /\ \A c \in CallIds :
        (queue_closed /\ Brings(c) /\ c \notin Blocked /\ Acts(c)) =>
           /\ Ends(c)
           /\ outcome' = "queue_closed"
           /\ UNCHANGED <<unroll_queue, enq_log, enqueue_attempts, tables>>
  /\ (queue_closed /\ enq_log' # enq_log) =>
        \E c \in Blocked : unroll_queue' = unroll_queue \o <<Head(calls[c].pending)>>
  /\ (queue_closed /\ deq_log' # deq_log) =>
        /\ unroll_queue # <<>>
        /\ deq_log' = deq_log \o Uids(<<Head(unroll_queue)>>)
        /\ batch' = Append(batch, Head(unroll_queue))
        /\ unroll_queue' = Tail(unroll_queue)
  /\ (dequeue_failed' # dequeue_failed) =>
        /\ queue_closed /\ unroll_queue = <<>> /\ deq_log = enq_log /\ dequeue_failed'
        /\ UNCHANGED <<queues, batch, deq_log>>

\* The dequeues of the pipeline on the closed queue end: with the records of
\* the batch, or with QueueClosed.
ClosedDequeueEnds == (queue_closed /\ InDequeue) ~> (dequeue_failed \/ ~InDequeue)

NeverWaits ==
  \A c \in CallIds :
    (Running(c) /\ calls[c].completed_ids = <<>>) =>
       /\ c \notin Blocked
       /\ ~calls[c].waited
       /\ calls[c].pending = <<>>

\* Its enqueue_many puts nothing on the queue and the call goes on to
\* advance the state of its slots; it returns without having waited.
ReturnsAtOnce ==
  \A c \in CallIds :
    /\ (Does(c, "append") /\ calls'[c].completed_ids = <<>>) =>
          /\ calls'[c].pc = "enqueue"
          /\ nunrolls' = nunrolls
    /\ (Does(c, "enqueue") /\ calls[c].completed_ids = <<>> /\ ~queue_closed) =>
          /\ calls'[c].pc = "replace_agent_states"
          /\ UNCHANGED <<unroll_queue, enq_log, enqueue_attempts, nunrolls>>
    /\ (Ends(c) /\ calls[c].completed_ids = <<>> /\ outcome' = "returned") =>
          /\ ~call'.waited
          /\ \A k \in DOMAIN call'.env_ids :
               actions'[call'.env_ids[k]] =
                 AgentAction(calls[c].prev_agent_states[k])

\* C29: an inference call in which no slot completes a window never waits
\* on the unroll queue: it enqueues no record and returns, also when the
\* queue is full and nothing is dequeued.
C29_NoWindowNeverBlocks == []NeverWaits /\ [][ReturnsAtOnce]_vars

\* The queue is full, nothing was ever dequeued, a call waits in
\* enqueue_many, and the call after it, the first step of its slot, has
\* returned.
C29_Witness ==
  /\ Len(unroll_queue) = UnrollQueueCapacity
  /\ deq_log = <<>>
  /\ Blocked # {}
  /\ Len(call.env_ids) = 1
  /\ appended[call.env_ids[1]] = 1
  /\ ~call.abandoned[1]
  /\ call.completed_ids = <<>>
  /\ outcome = "returned"
  /\ actions[call.env_ids[1]] = Last(store[call.env_ids[1]]).action

\* ------------------------------------------------------------------------
\* Backpressure: blocked calls and the trainer
\* ------------------------------------------------------------------------

\* The trainer keeps dequeuing: the queue, of one record, is empty again
\* and again.
TrainerKeepsDequeuing == []<>(unroll_queue = <<>>)

\* Every call in progress returns.
EveryCallReturns == \A c \in CallIds : Running(c) ~> ~Running(c)

\* A call ends only by returning, and a call that returns has put all its
\* unrolls on the queue, in the order of its batch, none left out: they are
\* in the queue's log in that order.
ReturnsAfterAll ==
  \A c \in CallIds :
    /\ Ends(c) => outcome' = "returned" /\ calls[c].pending = <<>>
    /\ Does(c, "enqueue") =>
         \E fit \in 0 .. Len(calls[c].pending) :
           /\ enq_log' = enq_log \o Uids(SubSeq(calls[c].pending, 1, fit))
           /\ unroll_queue' = unroll_queue \o SubSeq(calls[c].pending, 1, fit)
           /\ calls'[c].pending = SubSeq(calls[c].pending, fit + 1, Len(calls[c].pending))
           /\ calls'[c].pc = "enqueue" <=> fit < Len(calls[c].pending)
    /\ Does(c, "read_first_agent_states") =>
         /\ Len(calls'[c].pending) = Len(calls[c].completed_ids)
         /\ \A j \in DOMAIN calls'[c].pending :
               calls'[c].pending[j].env = calls[c].completed_ids[j]

\* C24: if the trainer keeps dequeuing from the unroll queue, every
\* inference call eventually returns its actions, also a call in which
\* k > 1 slots complete their window at once with a queue of capacity 1; the
\* k unrolls of the call are all delivered, in order, and none is dropped.
C24_EveryCallReturns ==
  /\ TrainerKeepsDequeuing => EveryCallReturns
  /\ [][ReturnsAfterAll]_vars

\* A call in which both slots completed a window has returned after
\* waiting: its two unrolls are the last two of the queue's log, in batch
\* order.
C24_Witness ==
  /\ outcome = "returned"
  /\ \A c \in CallIds : ~Running(c)
  /\ call.completed_ids = <<0, 1>>
  /\ call.waited
  /\ nunrolls >= 2 /\ Len(enq_log) = nunrolls
  /\ enq_log[nunrolls - 1] = [uid |-> nunrolls - 1, env |-> 0]
  /\ enq_log[nunrolls] = [uid |-> nunrolls, env |-> 1]

\* ------------------------------------------------------------------------
\* Training batches
\* ------------------------------------------------------------------------

\* The training steps that took their batch: those counted in
\* optimizer.iterations and the one minimize is running.
StepsStarted == iterations + (IF learner = "minimize" THEN 1 ELSE 0)

\* The unrolls dequeued so far are those of the training steps so far, each
\* of per-replica-batch-size unrolls, and those of the batch being built; no
\* unroll was dequeued twice.
BatchesPartitionDequeued ==
  /\ Len(deq_log) = StepsStarted * PerReplicaBatchSize + Len(batch)
  /\ Len(batch) <= PerReplicaBatchSize
  /\ Uids(batch) = SubSeq(deq_log, Len(deq_log) - Len(batch) + 1, Len(deq_log))
  /\ \A i, j \in DOMAIN deq_log : i # j => deq_log[i].uid # deq_log[j].uid

\* A record enters the batch by one dequeue, which takes it off the head of
\* the unroll queue; a training step starts by taking a batch of exactly
\* per-replica-batch-size unrolls, and is counted once, when it ends.
BatchBuiltByDequeues ==
  /\ batch' # batch =>
       \/ /\ unroll_queue # <<>>
          /\ batch' = Append(batch, Head(unroll_queue))
          /\ unroll_queue' = Tail(unroll_queue)
          /\ iterations' = iterations /\ learner' = learner
       \/ /\ batch' = <<>>
          /\ learner = "training" /\ learner' = "minimize"
          /\ iterations' = iterations
  /\ (learner # "minimize" /\ learner' = "minimize") =>
       /\ Len(batch) = PerReplicaBatchSize
       /\ batch' = <<>>
       /\ iterations < FinalIteration
  /\ iterations' # iterations =>
       /\ iterations' = iterations + 1
       /\ learner = "minimize" /\ learner' = "training"
       /\ batch' = batch

\* C25: each training step takes a batch of exactly per-replica-batch-size
\* unrolls, obtained by that many single dequeues on the host's unroll queue;
\* no training step starts with fewer unrolls, and every unroll is in at most
\* one training batch.
C25_BatchOfExactlyBatchSize == []BatchesPartitionDequeued /\ [][BatchBuiltByDequeues]_vars

\* A training step with batch_size 2 took two unrolls, one of each slot.
C25_Witness ==
  /\ batch_size = 2
  /\ iterations = 1 /\ learner = "training"
  /\ batch = <<>>
  /\ Len(deq_log) = 2
  /\ deq_log[1].env # deq_log[2].env

\* ------------------------------------------------------------------------
\* Episode summaries
\* ------------------------------------------------------------------------

\* The steps with done set the calls served so far carried.
DoneSteps ==
  UNION {{<<s, i>> : i \in {j \in DOMAIN history[s] : history[s][j].done /\ history[s][j].served}} :
           s \in Slots}

\* The positions of a call before it has enqueued its summaries.
BeforeSummaries ==
  {"replace_run_ids", "assert", "add_reward", "read_infos", "enqueue_infos"}
    \cup ResetStatements

\* The done steps of the calls in progress whose summary is still to come.
DoneStepsToCome ==
  UNION {{<<c, k>> : k \in {j \in DOMAIN calls[c].env_ids : calls[c].env_outputs[j].done}} :
           c \in {d \in CallIds : calls[d].pc \in BeforeSummaries}}

\* One summary was enqueued for every done step of a call that has passed
\* line 380, and no other: on the queue or drained by the logger.
SummaryPerDoneStep ==
  Len(info_queue) + Len(logger.drained) =
    Cardinality(DoneSteps) - Cardinality(DoneStepsToCome)

\* The summaries of a call are the counters of its done slots, in batch
\* order, and only line 380 adds to the summary queue.
SummariesHoldCounters ==
  /\ \A c \in CallIds :
        /\ Does(c, "read_infos") =>
              /\ Len(calls'[c].infos) = Len(DoneIdsOf(c))
              /\ \A j \in DOMAIN calls'[c].infos :
                    calls'[c].infos[j] = env_infos[DoneIdsOf(c)[j]]
        /\ Does(c, "enqueue_infos") => info_queue' = info_queue \o calls[c].infos
  /\ Len(info_queue') > Len(info_queue) => \E c \in CallIds : Does(c, "enqueue_infos")

\* C11 as stated: on every host, every inference step that arrives with done
\* set enqueues exactly one episode summary holding the slot's accumulated
\* counters, a step without done enqueues none, whether or not a window
\* completes in the same call.
C11_SummaryPerDoneStep == []SummaryPerDoneStep /\ [][SummariesHoldCounters]_vars

\* On a host other than host 0 a call with a done step returned: the counters
\* of the slot were reset and the summary queue is empty.
C11_Witness ==
  /\ host # 0 /\ outcome = "returned"
  /\ \A c \in CallIds : ~Running(c)
  /\ \E k \in DOMAIN call.done :
        /\ call.done[k]
        /\ env_infos[call.env_ids[k]].frames = NumActionRepeats
        /\ env_infos[call.env_ids[k]].ret = 0
  /\ info_queue = <<>> /\ logger.drained = <<>>

\* ------------------------------------------------------------------------
\* Concurrent inference calls
\* ------------------------------------------------------------------------

\* A call none of whose slots another call in progress carries reads no
\* entry that another call in progress wrote.
NoForeignRead ==
  \A c \in CallIds : (Running(c) /\ ~calls[c].overlapped) => ~calls[c].foreign

\* Such a call leaves the entries of its slots as it leaves them when it
\* runs alone, whatever the calls for other slots did in between, and no
\* statement of a call changes an entry of a slot outside the call's batch.
DisjointCallsKeepToThemselves ==
  \A c \in CallIds :
    /\ (Ends(c) /\ ~calls[c].overlapped /\ outcome' \in {"returned", "abandoned"}) =>
          \A s \in Range(calls[c].env_ids) : SlotState(s)' = calls[c].expect[s]
    /\ Acts(c) =>
          \A s \in Slots \ Range(calls[c].env_ids) : SlotState(s)' = SlotState(s)

\* C12: two inference calls with disjoint batches commute on the per-slot
\* state: under every interleaving of their statements each slot's run id,
\* first agent state, agent state, last action, episode counters and window
\* end as they do when the slot's call runs alone (so as in either
\* sequential order), and neither call reads a value the other wrote.
C12_DisjointCallsCommute == []NoForeignRead /\ [][DisjointCallsKeepToThemselves]_vars

\* A call returned that ran next to a call for the other slot: it completed
\* an unroll, and a slot was reset in the behaviour.
C12_Witness ==
  /\ outcome = "returned"
  /\ call.concurrent /\ ~call.overlapped
  /\ call.completed_ids # <<>>
  /\ \E s \in Slots : resets[s] = 1
  /\ \E c \in CallIds : Running(c) /\ calls[c].pc = "replace_actions"

\* C18 as stated: when a call with a new run id for a slot started while an
\* earlier call for the slot was still in progress, then after both calls
\* finished the slot's window, first agent state, recurrent state and last
\* action are those written by the newer call only.
C18_NewerCallOnly ==
  \A s \in Slots :
    (/\ history[s] # <<>> /\ ~Busy(s)
     /\ Last(history[s]).overlap /\ Last(history[s]).reset /\ Last(history[s]).served) =>
       /\ Len(store[s]) = 1
       /\ store[s][1].run = Last(history[s]).run
       /\ store[s][1].prev_agent_state = AgentInitialState
       /\ first_agent_states[s] = AgentInitialState
       /\ agent_states[s] = AgentNextState(AgentInitialState)
       /\ actions[s] = AgentAction(AgentInitialState)
       /\ env_run_ids[s] = Last(history[s]).run

\* Both calls returned, and the window of the slot they share holds the
\* step of the older call, appended after the newer call's reset of the
\* window and its step.
C18_Witness ==
  \E s \in Slots :
    /\ Len(history[s]) = 2 /\ ~Busy(s) /\ outcome = "returned"
    /\ history[s][2].overlap /\ history[s][2].reset
    /\ history[s][1].run # history[s][2].run
    /\ store[s] # <<>>
    /\ Last(store[s]).run = history[s][1].run
    /\ nunrolls = 1

\* ------------------------------------------------------------------------
\* Slot ids out of range
\* ------------------------------------------------------------------------

\* Every table and the store hold entries for the ids of [0, num_envs) only.
EntriesInRange ==
  /\ DOMAIN env_run_ids = Slots /\ DOMAIN env_infos = Slots
  /\ DOMAIN store = Slots /\ DOMAIN first_agent_states = Slots
  /\ DOMAIN agent_states = Slots /\ DOMAIN actions = Slots

\* A call with an id out of range fails and changes no slot and no queue.
InvalidIdIsFatal ==
  (call' # call /\ ~AggValidIds(call'.env_ids)) =>
     /\ outcome' = "out_of_range"
     /\ \A s \in Slots : SlotState(s)' = SlotState(s)
     /\ UNCHANGED <<unroll_queue, info_queue, calls>>

\* C13: no entry of a table or of the store exists for an id outside
\* [0, num_envs), and an inference call whose batch holds such an id ends
\* in a fatal error and leaves every valid slot, and both queues, as they
\* were.
C13_InvalidIdIsFatal == []EntriesInRange /\ [][InvalidIdIsFatal]_vars

\* A call for slot 1 and the id num_envs, with a new run id for slot 1,
\* failed; slot 1 still holds the step and the run id it had.
C13_Witness ==
  /\ outcome = "out_of_range"
  /\ call.env_ids = <<1, NumEnvs>>
  /\ call.run_ids[1] # env_run_ids[1]
  /\ store[1] # <<>>

\* ------------------------------------------------------------------------
\* The recurrent state of an unroll and the chain of actions
\* ------------------------------------------------------------------------

\* The state attached to an unroll is the input state of its first step; for
\* the first unroll since the slot's reset that is the initial state, and it
\* is never the state that first step produced.
StateIsFirstInput(u) ==
  /\ u.agent_state = u.steps[1].prev_agent_state
  /\ u.k = 1 => u.agent_state = AgentInitialState
  /\ u.agent_state # AgentNextState(u.steps[1].prev_agent_state)

\* C19 as stated: the recurrent state attached to every unroll is the state
\* the policy was given as input for the unroll's first step record: the
\* initial state for the first window after a reset, and for a later window
\* the state held before the boundary step it shares with the previous
\* unroll was processed, not the state that step produced.
C19_UnrollStateIsFirstInput == \A u \in HeldUnrolls : StateIsFirstInput(u)

\* Two calls for a slot overlapped, and an unroll of the slot carries a
\* state that its first step was not given: the state another call's step
\* produced.
C19_Witness ==
  \E u \in HeldUnrolls :
    /\ Overlapped(u.env)
    /\ u.agent_state # u.steps[1].prev_agent_state
    /\ u.agent_state = AgentNextState(u.steps[1].prev_agent_state)

\* When a call returns, each of its slots caches the action and the next
\* recurrent state of the step the call appended for it.
CachedIsChosen ==
  \A c \in CallIds :
    (Ends(c) /\ outcome' = "returned") =>
       \A k \in DOMAIN calls[c].env_ids :
         LET s == calls[c].env_ids[k] IN
         /\ store'[s] # <<>>
         /\ actions'[s] = Last(store'[s]).action
         /\ actions'[s] = AgentAction(calls[c].prev_agent_states[k])
         /\ agent_states'[s] = AgentNextState(calls[c].prev_agent_states[k])

\* In a window or unroll a step's previous action is the action of the step
\* before it, and a slot's first step since its reset has the cleared
\* action.
ActionsChainIn(q) ==
  /\ \A i \in 1 .. (Len(q) - 1) : q[i + 1].prev_action = q[i].action
  /\ \A i \in DOMAIN q : q[i].n = 1 => q[i].prev_action = ClearedAction

ActionsChain ==
  /\ \A s \in Slots : ActionsChainIn(store[s])
  /\ \A u \in HeldWindows : ActionsChainIn(u.steps)

\* C20 as stated: when an inference call returns, each slot of its batch
\* caches the action the policy chose for it in that call and the call's
\* next recurrent state; in every window and unroll the previous action of
\* a step is the action recorded in the step before it, and the first step
\* after a reset carries the cleared action.
C20_CachedActionChains == []ActionsChain /\ [][CachedIsChosen]_vars

\* Two calls for a slot overlapped and both returned: the first step the
\* slot's window got after the reset is the step of the call that read the
\* action table before the reset, and carries the action cached then.
C20_Witness ==
  \E u \in HeldUnrolls :
    /\ Overlapped(u.env)
    /\ u.steps[1].n = 1
    /\ u.steps[1].prev_action # ClearedAction
    /\ u.steps[1].run # u.steps[2].run
    /\ \A c \in CallIds : ~Running(c)

\* ------------------------------------------------------------------------
\* Episode accounting over the episodes of a slot
\* ------------------------------------------------------------------------

Latest(S) == IF S = {} THEN 0 ELSE CHOOSE x \in S : \A y \in S : y <= x

\* In the calls h of a slot: the last call before the last one that arrived
\* with done set, and the last call that brought a new run id (0: none).
PreviousDone(h) == Latest({i \in 1 .. (Len(h) - 1) : h[i].served /\ h[i].done})
LastReset(h) == Latest({i \in 1 .. Len(h) : h[i].reset})

\* The calls whose rewards the episode running at the last call of h is
\* made of: those after the previous done call, from the last reset call on.
EpisodeCalls(h) ==
  {i \in 1 .. Len(h) : h[i].served /\ i > PreviousDone(h) /\ i >= LastReset(h)}

\* The calls whose frames it is made of: from the previous done call, or the
\* last reset call, up to but excluding the last call of h.
FrameCalls(h) ==
  {i \in 1 .. (Len(h) - 1) : h[i].served /\ i >= PreviousDone(h) /\ i >= LastReset(h)}

RewardsOf(h) == [i \in DOMAIN h |-> h[i].reward]

RawRewardsOf(h) == [i \in DOMAIN h |-> h[i].raw_reward]

\* The calls of h that arrived with done set, in order.
DoneCalls(h) == SelectSeq([i \in DOMAIN h |-> i], LAMBDA i : h[i].done /\ h[i].served)

\* The summary of the episode that ends with the last call of h.
SummaryOf(h) ==
  [frames |-> NumActionRepeats * Cardinality(FrameCalls(h)),
   ret |-> SumOver(RewardsOf(h), EpisodeCalls(h)),
   raw |-> SumOver(RawRewardsOf(h), EpisodeCalls(h))]

\* The counters of the slot when the last call of h has returned.
CountersOf(h) ==
  IF Last(h).done
  THEN [frames |-> NumActionRepeats, ret |-> 0, raw |-> 0]
  ELSE [frames |-> NumActionRepeats * (Cardinality(FrameCalls(h)) + 1),
        ret |-> SumOver(RewardsOf(h), EpisodeCalls(h)),
        raw |-> SumOver(RawRewardsOf(h), EpisodeCalls(h))]

Figures(info) == [frames |-> info.frames, ret |-> info.ret, raw |-> info.raw]

\* When the calls for slot 0, the one slot of these behaviours, have
\* returned: the summaries on the queue are those of the slot's done calls,
\* in order, each made of the rewards and frames of its episode, and the
\* counters are those of the episode that is running.
SummariesAccountForEpisode ==
  (history[0] # <<>> /\ ~Busy(0)) =>
     LET h == history[0] IN
     /\ Len(info_queue) = Len(DoneCalls(h))
     /\ \A j \in DOMAIN info_queue :
           Figures(info_queue[j]) = SummaryOf(SubSeq(h, 1, DoneCalls(h)[j]))
     /\ Figures(env_infos[0]) = CountersOf(h)

\* C21 as stated: the summary enqueued for a slot at a call with done set
\* reports as episode return and raw return the sum of the rewards of the
\* slot's calls after its previous done call (from its last run-id reset
\* call on, if that came later) up to and including the done call, and as
\* frames num_action_repeats times the number of calls from the previous
\* done call (or the reset call) inclusive up to but excluding the done
\* call; after the done call the slot's return counters are 0 and its frame
\* counter is num_action_repeats.
C21_SummaryAccountsForEpisode == SummariesAccountForEpisode

\* A call with done set and the first call of the slot's next session, with
\* a new run id, overlapped and both returned: the reset of the done slot's
\* counters came after the newer call had added its reward, which is lost,
\* and the frames of both calls are counted.
C21_Witness ==
  /\ Len(history[0]) = 2 /\ ~Busy(0) /\ outcome = "returned"
  /\ history[0][1].done /\ ~history[0][2].done
  /\ history[0][2].overlap /\ history[0][2].reset
  /\ Len(info_queue) = 1
  /\ env_infos[0].ret = 0
  /\ env_infos[0].frames = 2 * NumActionRepeats

\* ------------------------------------------------------------------------
\* Detection of first runs and restarts
\* ------------------------------------------------------------------------

\* The slots of the call that starts on thread c that have their first call
\* ever, or the first call with a run id other than that of their call
\* before.
FirstRunOrRestart(c) ==
  {s \in Range(calls'[c].env_ids) :
     \/ history[s] = <<>>
     \/ /\ history[s] # <<>>
        /\ Last(history[s]).run # calls'[c].run_ids[Pos(calls'[c].env_ids, s)]}

\* C23 as stated: every slot is detected as needing reset on its first
\* inference call ever and on its first call with a new run id, whatever run
\* id the actor drew.
C23_FirstRunAndRestartDetected ==
  [][\A c \in CallIds :
       Starts(c) => FirstRunOrRestart(c) \subseteq Range(NeedingReset(c)')]_vars

\* A slot had its first call, with run id 0, and was not reset.
C23_Witness ==
  \E s \in Slots :
    /\ Len(history[s]) = 1
    /\ history[s][1].run = 0
    /\ ~history[s][1].reset
    /\ ~Busy(s) /\ outcome = "returned"
    /\ env_run_ids[s] = 0 /\ resets[s] = 0

\* ------------------------------------------------------------------------
\* learner_loop: the number of steps, the checkpoints and the shutdown
\* ------------------------------------------------------------------------

\* The number of entries e in the loop's log.
Count(e) == Cardinality({i \in DOMAIN loop.log : loop.log[i] = e})

\* The place of an entry of the log in the order of learner_loop.
Rank(e) ==
  CASE e \in {"checkpoint", "step"} -> 0
    [] e = "final_checkpoint" -> 1
    [] e = "final_model" -> 2
    [] e = "server_shutdown" -> 3
    [] e = "queue_close" -> 4

\* The dataset has an element for the training step, or the loop is over.
UnrollsArrive == Len(batch) = PerReplicaBatchSize \/ loop.pc \notin {"loop", "minimize"}

\* The loop has left `while iterations < final_iteration`.
LoopLeft == loop.pc \in {"servers", "queues", "done"}

\* The iteration count changes only by a training step, taken while
\* iterations < final_iteration.
StepsWhileBelowFinal ==
  (loop.pc # "setup" /\ iterations' # iterations) =>
     /\ iterations < FinalIteration
     /\ iterations' = iterations + 1
     /\ loop'.log = Append(loop.log, "step")

\* The steps left at the start: none when the restored count is
\* final_iteration or more.
StepsLeft == IF loop.start < FinalIteration THEN FinalIteration - loop.start ELSE 0

\* What the loop did is in the order of the code: the final checkpoint and
\* the model once the while loop is left, then the shutdown of every server,
\* then the close of every queue.
ShutdownInOrder ==
  /\ \A i, j \in DOMAIN loop.log : i < j => Rank(loop.log[i]) <= Rank(loop.log[j])
  /\ Count("final_checkpoint") <= 1 /\ Count("final_model") <= 1
  /\ LoopLeft =>
        /\ ~(iterations < FinalIteration)
        /\ Count("final_checkpoint") = 1 /\ Count("final_model") = 1
  /\ loop.pc \in {"queues", "done"} => Count("server_shutdown") = NumHosts
  /\ loop.pc = "done" <=> Count("queue_close") = NumHosts
  /\ loop.pc # "done" => Count("queue_close") = 0 /\ ~queue_closed
  /\ loop.pc \notin {"queues", "done"} => Count("server_shutdown") = 0
  /\ ~LoopLeft => Count("final_checkpoint") = 0 /\ Count("final_model") = 0

\* C26 as stated: once the loop has ended it has run exactly final_iteration
\* minus the starting iteration count training steps.
C26_FinalMinusStartSteps ==
  LoopLeft => Count("step") = FinalIteration - loop.start

\* Once the loop has ended it has run the steps that were left at the start.
StepsLeftRun ==
  /\ Count("step") <= StepsLeft
  /\ LoopLeft => Count("step") = StepsLeft

\* C26: the learner loop runs a training step only while iterations <
\* final_iteration = ceil(total_environment_frames / (batch_size *
\* unroll_length * num_action_repeats)); if unrolls keep arriving the while
\* loop ends, after exactly final_iteration minus the starting count steps,
\* or no step when the starting count is final_iteration or more; only
\* after the last step, and in this order, the final checkpoint and the
\* model are saved, every server is shut down and every unroll queue is
\* closed.
C26_LoopRunsToFinalIteration ==
  /\ []ShutdownInOrder
  /\ []StepsLeftRun
  /\ [][StepsWhileBelowFinal]_vars
  /\ ([]<>UnrollsArrive) => <>LoopLeft

\* The loop started from a restored count of 1, ran the one step left, saved
\* the final checkpoint and the model and shut down.
C26_Witness ==
  /\ loop.pc = "done"
  /\ loop.start = 1 /\ FinalIteration = 2
  /\ Count("step") = 1
  /\ Count("final_checkpoint") = 1
  /\ queue_closed

\* The loop's log grew by a checkpoint of the while loop.
Checkpointed == loop'.log = Append(loop.log, "checkpoint")

\* A checkpoint is written at the head of the while loop only, before the
\* training step of the iteration, exactly when save_checkpoint_secs have
\* passed since last_ckpt_time; neither the iteration count nor the batch
\* changes with it.
CheckpointWhenDue ==
  /\ Checkpointed =>
       /\ loop.pc = "loop" /\ loop'.pc = "minimize"
       /\ loop'.last_ckpt_time = loop.now
       /\ iterations' = iterations /\ batch' = batch
  /\ (loop.pc = "loop" /\ loop'.pc = "minimize") =>
       (Checkpointed <=> loop.now - loop.last_ckpt_time >= SaveCheckpointSecs)
  /\ (loop'.log # loop.log /\ ~Checkpointed) => loop'.last_ckpt_time = loop.last_ckpt_time

\* The first training step has run.
FirstStepRun == Count("step") >= 1

\* The initial model was checkpointed before the first training step.
InitialCheckpoint == loop.log # <<>> /\ loop.log[1] = "checkpoint"

\* Once the while loop is left the final checkpoint is in the log, after
\* every training step.
FinalCheckpointSaved ==
  LoopLeft =>
    \E i \in DOMAIN loop.log :
       /\ loop.log[i] = "final_checkpoint"
       /\ \A j \in DOMAIN loop.log : loop.log[j] = "step" => j < i

\* C27 as stated: the initial model is checkpointed before the first
\* training step if and only if no checkpoint was restored from logdir.
C27_InitialCheckpointIffNotRestored ==
  FirstStepRun => (InitialCheckpoint <=> ~loop.restored)

\* C27: checkpoints are written only between training steps: before a
\* training step exactly when at least save_checkpoint_secs have passed
\* since the last save (or since the restore of a checkpoint from logdir);
\* the initial model is checkpointed before the first training step whenever
\* no checkpoint was restored, and after a restore only if
\* save_checkpoint_secs have passed since it; a final checkpoint is always
\* saved after the last training step.
C27_CheckpointsBetweenSteps ==
  /\ [][CheckpointWhenDue]_vars
  /\ []((FirstStepRun /\ ~loop.restored) => InitialCheckpoint)
  /\ []FinalCheckpointSaved

\* A checkpoint was restored, save_checkpoint_secs passed before the loop
\* started, and the restored model was checkpointed before the first step.
C27_Witness ==
  /\ loop.restored
  /\ FirstStepRun
  /\ InitialCheckpoint
  /\ loop.pc = "done"

\* ------------------------------------------------------------------------
\* additional_logs next to the inference calls
\* ------------------------------------------------------------------------

\* What one step does to the summary queue: the size test chooses the
\* largest multiple of log_episode_frequency that is at most size() and goes
\* on to dequeue_many only if that is not 0; dequeue_many takes that many
\* records off the head, in order; every other step leaves the queue alone or
\* adds records at its end.
DrainStep ==
  /\ (logger.pc = "idle" /\ logger' # logger) =>
       /\ logger'.n_episodes % logger.frequency = 0
       /\ logger'.n_episodes <= Len(info_queue)
       /\ Len(info_queue) - logger'.n_episodes < logger.frequency
       /\ logger'.pc = "dequeue_many" <=> logger'.n_episodes # 0
       /\ info_queue' = info_queue
       /\ logger'.drained = logger.drained
  /\ logger.pc = "dequeue_many" =>
       \/ /\ logger' = logger
          /\ IsPrefix(info_queue, info_queue')
       \/ /\ logger'.pc = "idle"
          /\ Len(logger'.drained) = Len(logger.drained) + logger.n_episodes
          /\ logger'.drained \o info_queue' = logger.drained \o info_queue
  /\ logger' = logger => IsPrefix(info_queue, info_queue')

\* dequeue_many finds its records on the queue: it does not wait.
DequeueManyReady ==
  logger.pc = "dequeue_many" =>
     /\ logger.n_episodes > 0
     /\ Len(info_queue) >= logger.n_episodes
     /\ ENABLED LogsDequeueMany

\* C28: a drain of the summary queue removes the largest multiple of
\* log_episode_frequency that does not exceed size(), and nothing when that
\* is 0; dequeue_many never waits, the logger being the only consumer; the
\* fewer than log_episode_frequency records left over stay on the queue in
\* order and none is dropped.
C28_DrainsMultipleOfFrequency == []DequeueManyReady /\ [][DrainStep]_vars

\* With log_episode_frequency 2 the logger took two of three summaries and
\* the third is still on the queue.
C28_Witness ==
  /\ logger.frequency = 2
  /\ logger.pc = "idle"
  /\ Len(logger.drained) = 2
  /\ Len(info_queue) = 1

\* ------------------------------------------------------------------------
\* The actor's sessions and requests
\* ------------------------------------------------------------------------

\* The step starts a session.
Connects == actor_pc = "connect" /\ actor_pc' = "inference"

\* What a step does on an exception, and what the start of a session sets.
SessionRestart ==
  /\ (errors' # errors /\ actor_pc \in {"inference", "extra_inference"}) =>
        IF Last(errors') \in {"UnavailableError", "CancelledError"}
        THEN /\ actor_pc' = "connect"
             /\ batched_env = "open" /\ batched_env' = "closed"
             /\ actor_step' = actor_step /\ session' = session
        ELSE actor_pc' = "failed"
  /\ (errors' # errors /\ actor_pc = "step") => actor_pc' = "failed"
  /\ Connects =>
        /\ actor_pc' = "inference"
        /\ session' = session + 1
        /\ batched_env' = "open"
        /\ run_id' \in [ActorEnvs -> ActorRunIds]
        /\ reward' = Zeros /\ raw_reward' = Zeros
        /\ done' = AllFalse /\ abandoned' = AllFalse
        /\ episode_step' = Zeros /\ episode_return' = Zeros /\ episode_raw_return' = Zeros
        /\ global_step' = 0
        /\ actor_step' = actor_step
  /\ actor_pc = "failed" => actor_pc' = "failed"

\* No count of retries stops the loop: a new session can start whenever the
\* actor is back at the top of the loop.
RetryAlwaysPossible ==
  (actor_pc = "connect" /\ session < MaxSessions) => ENABLED Connect

\* C14: an UnavailableError or CancelledError of the inference call closes
\* the environment batch and sends the actor back to the top of its loop,
\* where it starts a new session with a new client and environment batch,
\* newly drawn run ids and zeroed reward, raw_reward, done, abandoned and
\* episode counters, actor_step keeping its value; no retry count limits
\* this, and any other exception ends the loop.
C14_RetryOnDisconnect == []RetryAlwaysPossible /\ [][SessionRestart]_vars

\* The second session starts after a request with a reward failed with a
\* retried error: the arrays are zero again and actor_step is not.
C14_Witness ==
  /\ session = 2 /\ actor_pc = "inference" /\ batched_env = "open"
  /\ actor_step > 0
  /\ errors # <<>> /\ Last(errors) \in {"UnavailableError", "CancelledError"}
  /\ sent.reward # Zeros /\ reward = Zeros
  /\ episode_step = Zeros

\* C15: in every request the actor sends to inference (the first of a
\* session, the regular ones and the extra one for an abandoned episode
\* end) abandoned[i] implies done[i] for every environment i of the batch.
C15_AbandonedImpliesDone ==
  /\ \A i \in DOMAIN sent.abandoned : sent.abandoned[i] => sent.done[i]
  /\ actor_pc = "inference" => \A i \in ActorEnvs : abandoned[i] => done[i]

\* In its second session the actor made the extra call for an abandoned
\* episode end and then sent the transition with done and abandoned set.
C15_Witness ==
  /\ session = 2 /\ sent.kind = "regular"
  /\ sent.abandoned[0] /\ sent.done[0]
  /\ sent.reward[0] = 0

\* ------------------------------------------------------------------------
\* V-trace: recursion against direct summation, clipping
\* ------------------------------------------------------------------------

\* C16: with lambda_ = 1 and any thresholds (set or not), for every input
\* of shape [T, B] the backward recursion gives the same vs and the same
\* pg_advantages as the direct double summation.
C16_RecursionMatchesSummation ==
  (output # <<>> /\ ground_truth_v # <<>>) =>
     /\ output.vs = ground_truth_v.vs
     /\ output.pg_advantages = ground_truth_v.pg_advantages

\* Both were computed for two steps with a ratio above 1 clipped at 1, a
\* ratio below 1, discount 1 and a value target that differs from the value.
C16_Witness ==
  /\ output # <<>> /\ ground_truth_v # <<>>
  /\ vtrace_inputs.shape = <<2, 1>>
  /\ vtrace_inputs.clip_rho_threshold = Rat(1)
  /\ vtrace_inputs.target_action_log_probs[1][1] < 0
  /\ vtrace_inputs.target_action_log_probs[2][1] > 0
  /\ vtrace_inputs.discounts[1][1] = Rat(1)
  /\ output.vs[1][1] # vtrace_inputs.values[1][1]
  /\ output.vs[2][1] # vtrace_inputs.values[2][1]

\* Every importance ratio of the arguments with the given target is above
\* clip_rho_threshold.
AllAbove(target) ==
  \A t \in Times_(vtrace_inputs), b \in Batch_(vtrace_inputs) :
     Above(Exp(target[t][b] - vtrace_inputs.behaviour_action_log_probs[t][b]),
           vtrace_inputs.clip_rho_threshold)

BothComputed == ground_truth_v # <<>> /\ other_v # <<>>

\* C17 as stated: for any clip_rho_threshold, two inputs that differ only
\* in target_action_log_probs and whose ratios are all above the threshold
\* have equal vs.
C17_SaturatedAnyThreshold ==
  (BothComputed /\ AllAbove(vtrace_inputs.target_action_log_probs) /\ AllAbove(other_target))
     => ground_truth_v.vs = other_v.vs

\* C17: for a clip_rho_threshold of at least 1, two inputs that differ only
\* in target_action_log_probs and whose ratios are all above the threshold
\* have equal vs.
C17_SaturatedFromOne ==
  (/\ BothComputed
   /\ ~Above(Rat(1), vtrace_inputs.clip_rho_threshold)
   /\ AllAbove(vtrace_inputs.target_action_log_probs) /\ AllAbove(other_target))
     => ground_truth_v.vs = other_v.vs

\* Threshold 1, two different targets with every ratio above 1, and value
\* targets that differ from the values.
C17_Witness ==
  /\ BothComputed
  /\ vtrace_inputs.clip_rho_threshold = Rat(1)
  /\ AllAbove(vtrace_inputs.target_action_log_probs) /\ AllAbove(other_target)
  /\ other_target # vtrace_inputs.target_action_log_probs
  /\ vtrace_inputs.discounts[1][1] = Rat(1)
  /\ ground_truth_v.vs[1][1] # vtrace_inputs.values[1][1]
  /\ ground_truth_v.vs = other_v.vs

\* ------------------------------------------------------------------------
\* ------------------------------------------------------------------------
\* The actor at an abandoned episode end
\* ------------------------------------------------------------------------

\* The step of the environment ended an episode with abandoned set.
AbandonedEnd == actor_pc = "step" /\ \E i \in ActorEnvs : done'[i] /\ abandoned'[i]

\* With one environment the actor goes on to the extra call, holding the
\* reward of the step.
ExtraCallPending ==
  /\ actor_pc' = "extra_inference"
  /\ reward'[0] \in StepRewards
  /\ raw_reward'[0] # 0

\* The extra call carries the reward of the step and no flag.
ExtraCallSent ==
  /\ sent'.kind = "extra"
  /\ sent'.reward = reward /\ sent'.raw_reward = raw_reward
  /\ sent'.done = AllFalse /\ sent'.abandoned = AllFalse

\* When the extra call has returned the rewards are cleared, the flags of
\* the step are kept for the next iteration and the episode counters start
\* afresh.
ClearedAfterExtraCall ==
  /\ reward'[0] = 0 /\ raw_reward'[0] = 0
  /\ done'[0] /\ abandoned'[0]
  /\ episode_step'[0] = 0 /\ episode_return'[0] = 0 /\ episode_raw_return'[0] = 0
  /\ actor_step' = actor_step + 1

\* A request with abandoned set is the regular call of the iteration after
\* the extra call: done set, rewards zero, the extra call the request before.
AbandonedSentSecond ==
  \A i \in ActorEnvs :
    sent'.abandoned[i] =>
      /\ sent'.kind = "regular"
      /\ sent'.done[i] /\ sent'.reward[i] = 0 /\ sent'.raw_reward[i] = 0
      /\ sent.kind = "extra" /\ sent.run_id = sent'.run_id
      /\ sent.done = AllFalse /\ sent.abandoned = AllFalse

AbandonedEndStep ==
  /\ (AbandonedEnd /\ env_batch_size = 1) => ExtraCallPending
  /\ (AbandonedEnd /\ env_batch_size > 1) =>
        /\ actor_pc' = "failed"
        /\ errors' = Append(errors, "AssertionError")
  /\ actor_pc = "extra_inference" => ExtraCallSent
  /\ (actor_pc = "extra_inference" /\ actor_pc' = "inference") => ClearedAfterExtraCall
  /\ (actor_pc = "inference" /\ abandoned[0]) =>
        sent' = Request("regular", reward, done, abandoned)
  /\ actor_pc \in {"inference", "extra_inference"} => AbandonedSentSecond
  /\ actor_pc = "failed" => actor_pc' = "failed"

\* C22: with env_batch_size = 1, at an episode end with abandoned set the
\* actor first makes one extra inference call with the reward of the step and
\* done = abandoned = false, then zeroes reward and raw_reward, and in the
\* next iteration sends done = true and abandoned = true; no request carries
\* the abandoned flag before that second call. With env_batch_size > 1 an
\* abandoned episode end ends the actor with an assertion failure.
C22_AbandonedReportedInSecondCall ==
  /\ [](actor_pc = "extra_inference" =>
          env_batch_size = 1 /\ done[0] /\ abandoned[0])
  /\ []((actor_pc = "inference" /\ abandoned[0]) =>
          /\ sent.kind = "extra" /\ sent.run_id = run_id
          /\ done[0] /\ reward[0] = 0 /\ raw_reward[0] = 0)
  /\ [][AbandonedEndStep]_vars

\* The second call was sent: done and abandoned set, zero rewards.
C22_Witness ==
  /\ env_batch_size = 1
  /\ sent.kind = "regular"
  /\ sent.abandoned[0] /\ sent.done[0]
  /\ sent.reward[0] = 0 /\ sent.raw_reward[0] = 0
  /\ actor_pc = "step"

\* With two environments the second one ended an episode abandoned and the
\* actor failed.
C22_WitnessBatched ==
  /\ env_batch_size = 2
  /\ actor_pc = "failed"
  /\ done[1] /\ abandoned[1] /\ ~abandoned[0]
  /\ Last(errors) = "AssertionError"

\* ------------------------------------------------------------------------
\* ------------------------------------------------------------------------
\* The environment batch the except clause closes
\* ------------------------------------------------------------------------

\* The step raises an exception that the except clause of actor_loop
\* handles.
HandlerRuns ==
  /\ Len(errors') > Len(errors)
  /\ errors'[Len(errors) + 1] \in Retried

\* The handler closes the open environment batch of the running session
\* and nothing else goes wrong in it.
ClosesOpenBatch ==
  /\ batched_env = "open"
  /\ batched_env' = "closed"
  /\ errors' = Append(errors, errors'[Len(errors) + 1])
  /\ actor_pc' = "connect"

\* C30: whenever the except clause of actor_loop runs, batched_env is the
\* open environment batch created in the running connection attempt, never
\* unbound and never a batch that an earlier run of the handler closed, so
\* that no batch is closed twice.
C30_HandlerClosesOpenBatch ==
  /\ [](batched_env # "closed_twice")
  /\ [][HandlerRuns => ClosesOpenBatch]_vars

\* The handler runs for an exception of the inference call: the batch of
\* the session is open and is closed once.
C30_HandlerAfterInferenceClosesOnce ==
  [][(HandlerRuns /\ actor_pc \in {"inference", "extra_inference"}) => ClosesOpenBatch]_vars

\* grpc.Client raised UnavailableError in the first attempt: the handler
\* found batched_env unbound and the actor left its loop.
C30_Witness ==
  /\ session = 1
  /\ batched_env = "none"
  /\ errors = <<"UnavailableError", "UnboundLocalError">>
  /\ actor_pc = "failed"

\* grpc.Client raised in the second attempt, after a session that a retried
\* error ended: the batch of that session was closed a second time.
C30_WitnessClosedTwice ==
  /\ session = 2
  /\ batched_env = "closed_twice"
  /\ Len(errors) = 2
  /\ errors[1] \in Retried /\ errors[2] \in Retried
  /\ actor_pc = "connect"


=============================================================================
